---- MODULE Spec2Model ----
(***************************************************************************)
(* Data plane of the layered experimentation platform: experiment catalog, *)
(* layer manager with service index and rollback history, config applier   *)
(* and the merge engine, modelled from src/data_plane/src.                  *)
(***************************************************************************)
EXTENDS Integers, Sequences, FiniteSets, TLC

VARIABLES catalog, layers, service_index, history, field_types, last, response,
          wpc, wjob, rpc, rjob

catVars == <<catalog>>
lmVars == <<layers, service_index, history, field_types>>
concVars == <<wpc, wjob, rpc, rjob>>
vars == <<catalog, layers, service_index, history, field_types, last, response,
          wpc, wjob, rpc, rjob>>

(***************************************************************************)
(* Generic helpers for std collections.                                    *)
(***************************************************************************)
EmptyMap == [x \in {} |-> x]

MapInsert(m, k, v) == [x \in (DOMAIN m) \cup {k} |-> IF x = k THEN v ELSE m[x]]

MapRemove(m, k) == [x \in (DOMAIN m) \ {k} |-> m[x]]

None == [some |-> FALSE, v |-> ""]

Some(x) == [some |-> TRUE, v |-> x]

(***************************************************************************)
(* serde_json::Value.  Every value is a record of one shape; the tag t     *)
(* says which field carries the payload.                                   *)
(***************************************************************************)
JNull == [t |-> "null", n |-> 0, s |-> "", m |-> <<>>]

JBool(b) == [t |-> "bool", n |-> IF b THEN 1 ELSE 0, s |-> "", m |-> <<>>]

JNum(n) == [t |-> "num", n |-> n, s |-> "", m |-> <<>>]

JStr(s) == [t |-> "str", n |-> 0, s |-> s, m |-> <<>>]

JArr(n) == [t |-> "arr", n |-> n, s |-> "", m |-> <<>>]

JObj(m) == [t |-> "obj", n |-> 0, s |-> "", m |-> m]

(***************************************************************************)
(* merge.rs: merge_params_prioritized.  target is the accumulator map,     *)
(* source a JSON value.  Returns ok = FALSE for a non-object source.       *)
(***************************************************************************)
RECURSIVE merge_params_prioritized(_, _)
RECURSIVE merge_source_map(_, _, _)
RECURSIVE merge_source_map_overwrite(_, _, _)
\* The loop with the arm (Some(_), _) inserting the source's value.
merge_source_map_overwrite(target, source_map, keys) ==
  IF keys = {} THEN target
  ELSE LET key == CHOOSE k \in keys : TRUE
           value == source_map[key]
           merged == IF key \in DOMAIN target /\ target[key].t = "obj" /\ value.t = "obj"
                     THEN MapInsert(target, key,
                            JObj(merge_params_prioritized(target[key].m, value).map))
                     ELSE MapInsert(target, key, value)
       IN merge_source_map_overwrite(merged, source_map, keys \ {key})

\* The loop of lines 158-170 over the keys of source_map still to visit;
\* the three arms of the match on (target.get_mut(key), value).
merge_source_map(target, source_map, keys) ==
  IF keys = {} THEN target
  ELSE LET key == CHOOSE k \in keys : TRUE
           value == source_map[key]
           merged == IF key \in DOMAIN target
                     THEN IF target[key].t = "obj" /\ value.t = "obj"
                          THEN MapInsert(target, key,
                                 JObj(merge_params_prioritized(target[key].m, value).map))
                          ELSE target
                     ELSE MapInsert(target, key, value)
       IN merge_source_map(merged, source_map, keys \ {key})

\* The loop returning after the first key of the source.
merge_params_prioritized_first_key(target, source) ==
  IF source.t # "obj"
  THEN [ok |-> FALSE, map |-> target]
  ELSE [ok |-> TRUE,
        map |-> IF DOMAIN source.m = {} THEN target
                ELSE merge_source_map(target, source.m, {CHOOSE k \in DOMAIN source.m : TRUE})]

merge_params_prioritized(target, source) ==
  IF source.t # "obj"
  THEN [ok |-> FALSE, map |-> target]
  ELSE [ok |-> TRUE, map |-> merge_source_map(target, source.m, DOMAIN source.m)]

(***************************************************************************)
(* engine/catalog.rs: ExperimentCatalog.                                   *)
(* A catalog is [experiments: eid -> ExperimentDef, vid_to_eid: vid -> eid]*)
(* An ExperimentDef is [eid, service, rule, variants: Seq([vid, params])]. *)
(***************************************************************************)
EmptyCatalog == [experiments |-> EmptyMap, vid_to_eid |-> EmptyMap]

VariantDef(vid, params) == [vid |-> vid, params |-> params]

ExperimentDef(eid, service, rule, variants) ==
  [eid |-> eid, service |-> service, rule |-> rule, variants |-> variants]

\* from_experiments, inner loop over exp_def.variants (lines 57-64):
\* HashMap::insert returning Some(existing) is a duplicate vid.
RECURSIVE from_experiments_variants(_, _, _, _)
from_experiments_variants(variants, i, eid, v2e) ==
  IF i > Len(variants) THEN [ok |-> TRUE, vid_to_eid |-> v2e]
  ELSE IF variants[i].vid \in DOMAIN v2e
       THEN [ok |-> FALSE, vid_to_eid |-> v2e]
       ELSE from_experiments_variants(variants, i + 1, eid,
                                      MapInsert(v2e, variants[i].vid, eid))

RECURSIVE from_experiments_loop(_, _, _)
from_experiments_loop(experiments_vec, i, cat) ==
  IF i > Len(experiments_vec) THEN [ok |-> TRUE, catalog |-> cat]
  ELSE LET exp_def == experiments_vec[i] IN
       IF exp_def.eid \in DOMAIN cat.experiments
       THEN [ok |-> FALSE, catalog |-> cat]
       ELSE LET r == from_experiments_variants(exp_def.variants, 1, exp_def.eid,
                                               cat.vid_to_eid) IN
            IF ~r.ok THEN [ok |-> FALSE, catalog |-> cat]
            ELSE from_experiments_loop(experiments_vec, i + 1,
                   [experiments |-> MapInsert(cat.experiments, exp_def.eid, exp_def),
                    vid_to_eid |-> r.vid_to_eid])

from_experiments(experiments_vec) ==
  from_experiments_loop(experiments_vec, 1, EmptyCatalog)

\* update_experiment, first loop (lines 83-87): drop the old variants' vids.
RECURSIVE remove_variant_vids(_, _, _)
remove_variant_vids(variants, i, v2e) ==
  IF i > Len(variants) THEN v2e
  ELSE remove_variant_vids(variants, i + 1, MapRemove(v2e, variants[i].vid))

\* update_experiment, second loop (lines 90-100).  The map is mutated in
\* place, so the map returned with ok = FALSE is the one left behind.
RECURSIVE update_experiment_variants(_, _, _, _)
update_experiment_variants(variants, i, eid, v2e) ==
  IF i > Len(variants) THEN [ok |-> TRUE, vid_to_eid |-> v2e]
  ELSE IF variants[i].vid \in DOMAIN v2e /\ v2e[variants[i].vid] # eid
       THEN [ok |-> FALSE, vid_to_eid |-> v2e]
       ELSE update_experiment_variants(variants, i + 1, eid,
                                       MapInsert(v2e, variants[i].vid, eid))

update_experiment(cat, exp_def) ==
  LET v0 == IF exp_def.eid \in DOMAIN cat.experiments
            THEN remove_variant_vids(cat.experiments[exp_def.eid].variants, 1,
                                     cat.vid_to_eid)
            ELSE cat.vid_to_eid
      r == update_experiment_variants(exp_def.variants, 1, exp_def.eid, v0)
  IN IF ~r.ok
     THEN [ok |-> FALSE,
           catalog |-> [experiments |-> cat.experiments, vid_to_eid |-> r.vid_to_eid]]
     ELSE [ok |-> TRUE,
           catalog |-> [experiments |-> MapInsert(cat.experiments, exp_def.eid, exp_def),
                        vid_to_eid |-> r.vid_to_eid]]

remove_experiment(cat, eid) ==
  IF eid \in DOMAIN cat.experiments
  THEN [experiments |-> MapRemove(cat.experiments, eid),
        vid_to_eid |-> remove_variant_vids(cat.experiments[eid].variants, 1,
                                           cat.vid_to_eid)]
  ELSE cat

get_experiment(cat, eid) ==
  IF eid \in DOMAIN cat.experiments THEN Some(cat.experiments[eid]) ELSE None

get_eid_by_vid(cat, vid) ==
  IF vid \in DOMAIN cat.vid_to_eid THEN Some(cat.vid_to_eid[vid]) ELSE None

\* exp.variants.iter().find(|v| v.vid == vid): index of the first match, 0 if none.
find_variant(variants, vid) ==
  LET hits == {i \in 1..Len(variants) : variants[i].vid = vid}
  IN IF hits = {} THEN 0 ELSE CHOOSE i \in hits : \A j \in hits : i <= j

get_variant(cat, vid) ==
  LET e == get_eid_by_vid(cat, vid) IN
  IF ~e.some THEN None
  ELSE LET x == get_experiment(cat, e.v) IN
       IF ~x.some THEN None
       ELSE LET i == find_variant(x.v.variants, vid) IN
            IF i = 0 THEN None
            ELSE Some([eid |-> e.v, service |-> x.v.service, rule |-> x.v.rule,
                       params |-> x.v.variants[i].params])

(***************************************************************************)
(* Strings.  A string of the model is a TLA+ string of a finite universe;  *)
(* as_bytes gives its UTF-8 bytes, which is what hashing, concatenation    *)
(* and ordering work on.                                                   *)
(***************************************************************************)
as_bytes(s) ==
  CASE s = "" -> <<>>
    [] s = "L1" -> <<76, 49>>
    [] s = "L2" -> <<76, 50>>
    [] s = "L9" -> <<76, 57>>
    [] s = "v1" -> <<118, 49>>
    [] s = "v2" -> <<118, 50>>
    [] s = "v3" -> <<118, 51>>
    [] s = "u1" -> <<117, 49>>
    [] s = "u2" -> <<117, 50>>
    [] s = "s1" -> <<115, 49>>
    [] s = "CN" -> <<67, 78>>
    [] s = "US" -> <<85, 83>>
    [] s = "CA" -> <<67, 65>>
    [] s = "UK" -> <<85, 75>>
    [] s = "1.2" -> <<49, 46, 50>>
    [] s = "1.2.0" -> <<49, 46, 50, 46, 48>>
    [] s = "1.10" -> <<49, 46, 49, 48>>
    [] s = "2.0" -> <<50, 46, 48>>
    [] s = "a" -> <<97>>
    [] s = "b" -> <<98>>
    [] s = "ab" -> <<97, 98>>
    [] s = "aba" -> <<97, 98, 97>>
    [] s = "*" -> <<42>>
    [] s = "a*" -> <<97, 42>>
    [] s = "*a" -> <<42, 97>>
    [] s = "a*a" -> <<97, 42, 97>>
    [] s = "g1" -> <<103, 49>>
    [] s = "g3" -> <<103, 51>>
    [] s = "g9" -> <<103, 57>>
    [] s = "4" -> <<52>>

\* Ord for byte strings (str::cmp): lexicographic, a proper prefix is Less.
RECURSIVE bytes_cmp(_, _)
bytes_cmp(a, b) ==
  IF a = <<>> /\ b = <<>> THEN "Equal"
  ELSE IF a = <<>> THEN "Less"
  ELSE IF b = <<>> THEN "Greater"
  ELSE IF Head(a) < Head(b) THEN "Less"
  ELSE IF Head(a) > Head(b) THEN "Greater"
  ELSE bytes_cmp(Tail(a), Tail(b))

str_cmp(a, b) == bytes_cmp(as_bytes(a), as_bytes(b))

\* Display of a JSON integer (serde_json Number::to_string): decimal digits,
\* '-' in front of a negative number.
RECURSIVE digits_of(_)
digits_of(n) ==
  IF n < 10 THEN <<48 + n>> ELSE Append(digits_of(n \div 10), 48 + (n % 10))

number_to_string(n) == IF n < 0 THEN <<45>> \o digits_of(-n) ELSE digits_of(n)

(***************************************************************************)
(* engine/hash.rs.  xxh3_64 is the external xxhash crate; the model uses a *)
(* fixed polynomial hash of the same bytes in its place.                   *)
(***************************************************************************)
BUCKET_SIZE == 10000

RECURSIVE xxh3_64_from(_, _)
xxh3_64_from(h, bytes) ==
  IF bytes = <<>> THEN h
  ELSE xxh3_64_from((h * 31 + Head(bytes)) % 67108864, Tail(bytes))

xxh3_64(bytes) == xxh3_64_from(7, bytes)

hash_to_bucket_unreduced(key, salt) == xxh3_64(key \o salt)

\* key and salt are byte strings; format!("{}{}", key, salt) concatenates them.
hash_to_bucket(key, salt) == xxh3_64(key \o salt) % BUCKET_SIZE

(***************************************************************************)
(* layer.rs: Layer and its configuration.                                  *)
(* A Layer is [layer_id, version, priority, hash_key, salt, ranges,        *)
(* enabled]; the deprecated services field and the file path kept beside   *)
(* the layer are read by no operation and are left out.                    *)
(***************************************************************************)
BucketRange(start, end, vid) == [start |-> start, end |-> end, vid |-> vid]

Layer(layer_id, version, priority, hash_key, salt, ranges, enabled) ==
  [layer_id |-> layer_id, version |-> version, priority |-> priority,
   hash_key |-> hash_key, salt |-> salt, ranges |-> ranges, enabled |-> enabled]

get_salt_without_version(layer) ==
  IF layer.salt.some THEN as_bytes(layer.salt.v)
  ELSE as_bytes(layer.layer_id) \o <<95>>

get_salt(layer) ==
  IF layer.salt.some THEN as_bytes(layer.salt.v)
  ELSE as_bytes(layer.layer_id) \o <<95>> \o as_bytes(layer.version)

\* ranges.partition_point(|r| r.start <= bucket): the number of leading
\* ranges that satisfy the predicate.
RECURSIVE partition_point(_, _)
partition_point(ranges, bucket) ==
  IF ranges = <<>> \/ ~(Head(ranges).start <= bucket) THEN 0
  ELSE 1 + partition_point(Tail(ranges), bucket)

\* The candidate's end taken as inclusive.
get_vid_first_range(layer, bucket) ==
  IF layer.ranges = <<>> THEN None ELSE Some(layer.ranges[1].vid)

get_vid_inclusive_end(layer, bucket) ==
  IF bucket >= BUCKET_SIZE THEN None
  ELSE LET pos == partition_point(layer.ranges, bucket) IN
       IF pos > 0 /\ bucket <= layer.ranges[pos].end
       THEN Some(layer.ranges[pos].vid)
       ELSE None

get_vid(layer, bucket) ==
  IF bucket >= BUCKET_SIZE THEN None
  ELSE LET pos == partition_point(layer.ranges, bucket) IN
       IF pos > 0 /\ bucket < layer.ranges[pos].end
       THEN Some(layer.ranges[pos].vid)
       ELSE None

\* ranges.sort_by(start, then end): stable insertion sort.
range_le(a, b) == a.start < b.start \/ (a.start = b.start /\ a.end <= b.end)

RECURSIVE insert_range(_, _)
insert_range(sorted, r) ==
  IF sorted = <<>> THEN <<r>>
  ELSE IF range_le(Head(sorted), r) THEN <<Head(sorted)>> \o insert_range(Tail(sorted), r)
  ELSE <<r>> \o sorted

RECURSIVE sort_ranges(_)
sort_ranges(ranges) ==
  IF ranges = <<>> THEN <<>>
  ELSE insert_range(sort_ranges(SubSeq(ranges, 1, Len(ranges) - 1)), ranges[Len(ranges)])

validate_and_sort_ranges(ranges) ==
  IF \E i \in 1..Len(ranges) : ranges[i].start >= ranges[i].end \/ ranges[i].end > BUCKET_SIZE
  THEN [ok |-> FALSE, ranges |-> ranges]
  ELSE LET sorted == sort_ranges(ranges) IN
       IF \E i \in 1..(Len(sorted) - 1) : sorted[i + 1].start < sorted[i].end
       THEN [ok |-> FALSE, ranges |-> sorted]
       ELSE [ok |-> TRUE, ranges |-> sorted]

\* str::parse::<i64>(): an optional sign, then one or more decimal digits.
\* The strings of the model have at most six digits, so the overflow branch
\* is cut off at seven digits.
RECURSIVE parse_i64_digits(_, _)
parse_i64_digits(bytes, acc) ==
  IF bytes = <<>> THEN Some(acc)
  ELSE IF Head(bytes) < 48 \/ Head(bytes) > 57 THEN None
  ELSE IF acc > 99999 THEN None
  ELSE parse_i64_digits(Tail(bytes), acc * 10 + (Head(bytes) - 48))

parse_i64(bytes) ==
  LET signed == bytes # <<>> /\ Head(bytes) \in {43, 45}
      body == IF signed THEN Tail(bytes) ELSE bytes
      n == parse_i64_digits(body, 0)
  IN IF body = <<>> \/ ~n.some THEN None
     ELSE IF signed /\ Head(bytes) = 45 THEN Some(0 - n.v) ELSE n

\* A BucketRangeConfig is a record with start, end and vid (Vid, the variant
\* serde tries first) or with start, end and group (Group).
resolve_range_any_group(r, groups) ==
  IF "vid" \in DOMAIN r THEN [ok |-> TRUE, range |-> BucketRange(r.start, r.end, r.vid)]
  ELSE LET n == parse_i64(as_bytes(r.group)) IN
       IF n.some THEN [ok |-> TRUE, range |-> BucketRange(r.start, r.end, n.v)]
       ELSE [ok |-> TRUE,
             range |-> BucketRange(r.start, r.end,
                                   IF r.group \in DOMAIN groups THEN groups[r.group].vid ELSE 0)]

resolve_range(r, groups) ==
  IF "vid" \in DOMAIN r THEN [ok |-> TRUE, range |-> BucketRange(r.start, r.end, r.vid)]
  ELSE LET n == parse_i64(as_bytes(r.group)) IN
       IF n.some THEN [ok |-> TRUE, range |-> BucketRange(r.start, r.end, n.v)]
       ELSE IF r.group \in DOMAIN groups
            THEN [ok |-> TRUE, range |-> BucketRange(r.start, r.end, groups[r.group].vid)]
            ELSE [ok |-> FALSE, range |-> BucketRange(r.start, r.end, 0)]

\* cfg.ranges.into_iter().map(resolve_range).collect::<Result<Vec<_>>>():
\* the first Err ends the collection.
RECURSIVE resolve_ranges(_, _)
resolve_ranges(range_cfgs, groups) ==
  IF range_cfgs = <<>> THEN [ok |-> TRUE, ranges |-> <<>>]
  ELSE LET r == resolve_range(Head(range_cfgs), groups) IN
       IF ~r.ok THEN [ok |-> FALSE, ranges |-> <<>>]
       ELSE LET rest == resolve_ranges(Tail(range_cfgs), groups) IN
            [ok |-> rest.ok, ranges |-> IF rest.ok THEN <<r.range>> \o rest.ranges ELSE <<>>]

\* buckets.iter().collect(): the keys in the iteration order of the HashMap;
\* some_order is one such order.
RECURSIVE some_order(_)
some_order(keys) ==
  IF keys = {} THEN <<>>
  ELSE LET k == CHOOSE x \in keys : TRUE IN <<k>> \o some_order(keys \ {k})

\* boundaries.sort_by_key(|(k, _)| *k): stable insertion sort on the start.
RECURSIVE insert_boundary(_, _)
insert_boundary(sorted, k) ==
  IF sorted = <<>> THEN <<k>>
  ELSE IF Head(sorted) <= k THEN <<Head(sorted)>> \o insert_boundary(Tail(sorted), k)
  ELSE <<k>> \o sorted

sort_boundaries_unsorted(boundaries) == boundaries

RECURSIVE sort_boundaries(_)
sort_boundaries(boundaries) ==
  IF boundaries = <<>> THEN <<>>
  ELSE insert_boundary(sort_boundaries(SubSeq(boundaries, 1, Len(boundaries) - 1)),
                       boundaries[Len(boundaries)])

\* The loop of convert_buckets_to_ranges from boundary i on.
RECURSIVE boundary_ranges(_, _, _, _)
boundary_ranges(boundaries, buckets, groups, i) ==
  IF i > Len(boundaries) THEN [ok |-> TRUE, ranges |-> <<>>]
  ELSE LET start == boundaries[i]
           end == IF i + 1 <= Len(boundaries) THEN boundaries[i + 1] ELSE BUCKET_SIZE
           group_id == buckets[start]
       IN IF group_id \notin DOMAIN groups THEN [ok |-> FALSE, ranges |-> <<>>]
          ELSE LET rest == boundary_ranges(boundaries, buckets, groups, i + 1) IN
               [ok |-> rest.ok,
                ranges |-> IF rest.ok
                           THEN <<BucketRange(start, end, groups[group_id].vid)>> \o rest.ranges
                           ELSE <<>>]

\* order is the iteration order of the buckets HashMap.
convert_buckets_to_ranges(buckets, groups, order) ==
  boundary_ranges(sort_boundaries(order), buckets, groups, 1)

\* A LayerConfig: the fields of a Layer with the ranges as written in the
\* file and, in the legacy forms, the buckets and groups maps; a map the
\* file leaves out is empty (serde default).
config_groups(cfg) == IF "groups" \in DOMAIN cfg THEN cfg.groups ELSE EmptyMap

config_buckets(cfg) == IF "buckets" \in DOMAIN cfg THEN cfg.buckets ELSE EmptyMap

try_from_config(cfg) ==
  LET resolved == IF cfg.ranges # <<>> THEN resolve_ranges(cfg.ranges, config_groups(cfg))
                  ELSE IF DOMAIN config_buckets(cfg) # {}
                       THEN convert_buckets_to_ranges(config_buckets(cfg), config_groups(cfg),
                                                      some_order(DOMAIN config_buckets(cfg)))
                       ELSE [ok |-> TRUE, ranges |-> <<>>]
      r == validate_and_sort_ranges(resolved.ranges)
  IN [ok |-> resolved.ok /\ r.ok,
      layer |-> Layer(cfg.layer_id, cfg.version, cfg.priority, cfg.hash_key, cfg.salt,
                      r.ranges, cfg.enabled)]

(***************************************************************************)
(* layer.rs: LayerManager.  layers: layer_id -> Layer, service_index:      *)
(* service -> Seq(layer_id), history: layer_id -> Seq(Layer).              *)
(***************************************************************************)
\* Lines 316-330 with a layer dropped as soon as one of its vids is unknown.
layer_services_strict(layer, cat) ==
  IF \E j \in 1..Len(layer.ranges) : ~get_variant(cat, layer.ranges[j].vid).some
  THEN {}
  ELSE {get_variant(cat, layer.ranges[i].vid).v.service : i \in 1..Len(layer.ranges)}

\* The services a layer refers to through its ranges' vids (lines 316-330).
layer_services(layer, cat) ==
  {get_variant(cat, layer.ranges[i].vid).v.service :
     i \in {j \in 1..Len(layer.ranges) : get_variant(cat, layer.ranges[j].vid).some}}

\* The (layer_id, priority) pairs pushed for one service, in the order in
\* which the loop of line 310 meets the layers (lines 310-339).
RECURSIVE pushed_for_service(_, _, _, _)
pushed_for_service(layers_map, cat, order, service) ==
  IF order = <<>> THEN <<>>
  ELSE LET layer == layers_map[Head(order)]
           rest == pushed_for_service(layers_map, cat, Tail(order), service)
       IN IF layer.enabled /\ service \in layer_services(layer, cat)
          THEN <<[id |-> Head(order), priority |-> layer.priority]>> \o rest
          ELSE rest

\* The comparator of line 344 without the layer_id tie-break.
index_cmp_priority_only(a, b) ==
  IF b.priority < a.priority THEN "Less"
  ELSE IF b.priority > a.priority THEN "Greater"
  ELSE "Equal"

\* The comparator of line 344: priority descending, then layer_id ascending.
index_cmp(a, b) ==
  IF b.priority < a.priority THEN "Less"
  ELSE IF b.priority > a.priority THEN "Greater"
  ELSE str_cmp(a.id, b.id)

RECURSIVE insert_layer_entry(_, _)
insert_layer_entry(sorted, e) ==
  IF sorted = <<>> THEN <<e>>
  ELSE IF index_cmp(Head(sorted), e) # "Greater"
       THEN <<Head(sorted)>> \o insert_layer_entry(Tail(sorted), e)
       ELSE <<e>> \o sorted

RECURSIVE sort_layer_list(_)
sort_layer_list(layer_list) ==
  IF layer_list = <<>> THEN <<>>
  ELSE insert_layer_entry(sort_layer_list(SubSeq(layer_list, 1, Len(layer_list) - 1)),
                          layer_list[Len(layer_list)])

\* order is the iteration order of the layers HashMap (a permutation of its keys).
rebuild_service_index(layers_map, cat, order) ==
  LET services == UNION {IF layers_map[id].enabled THEN layer_services(layers_map[id], cat)
                         ELSE {} : id \in DOMAIN layers_map}
  IN [service \in services |->
        LET sorted == sort_layer_list(pushed_for_service(layers_map, cat, order, service))
        IN [i \in 1..Len(sorted) |-> sorted[i].id]]

iteration_orders(S) ==
  {p \in [1..Cardinality(S) -> S] : \A i, j \in 1..Cardinality(S) : p[i] = p[j] => i = j}

\* load_all_layers, the loop over the directory entries (lines 368-399): a
\* file that fails to load is skipped, a later file of the same layer_id
\* replaces an earlier one.
RECURSIVE load_dir_entries(_, _)
load_dir_entries(files, new_layers) ==
  IF files = <<>> THEN new_layers
  ELSE LET r == try_from_config(Head(files)) IN
       load_dir_entries(Tail(files),
                        IF r.ok THEN MapInsert(new_layers, r.layer.layer_id, r.layer)
                        ELSE new_layers)

\* The layer map that load_all_layers publishes; None when the directory
\* does not exist (line 361).
load_all_layers_new(dir) ==
  IF ~dir.exists THEN None ELSE Some(load_dir_entries(dir.files, EmptyMap))

\* load_layer up to the insertion into the copied map (lines 412-449).
\* current is the map loaded at line 422.
load_layer_new(current, hist, layer_id, cfg) ==
  LET r == try_from_config(cfg) IN
  IF ~r.ok \/ r.layer.layer_id # layer_id
  THEN [ok |-> FALSE, new_layers |-> current, history |-> hist]
  ELSE [ok |-> TRUE,
        new_layers |-> MapInsert(current, layer_id, r.layer),
        history |-> IF layer_id \in DOMAIN current
                    THEN MapInsert(hist, layer_id,
                                   Append(IF layer_id \in DOMAIN hist THEN hist[layer_id]
                                          ELSE <<>>, current[layer_id]))
                    ELSE hist]

remove_layer_new_always_ok(current, layer_id) ==
  [ok |-> TRUE,
   new_layers |-> IF layer_id \in DOMAIN current THEN MapRemove(current, layer_id) ELSE current]

\* remove_layer (lines 462-465).
remove_layer_new(current, layer_id) ==
  IF layer_id \in DOMAIN current
  THEN [ok |-> TRUE, new_layers |-> MapRemove(current, layer_id)]
  ELSE [ok |-> FALSE, new_layers |-> current]

\* rollback_layer taking the oldest stored version instead of the newest.
rollback_layer_fifo(current, hist, layer_id) ==
  IF layer_id \in DOMAIN hist /\ hist[layer_id] # <<>>
  THEN LET versions == hist[layer_id]
           prev_layer == versions[1]
           popped == MapInsert(hist, layer_id, Tail(versions))
       IN IF layer_id \in DOMAIN current
          THEN [ok |-> TRUE, layers |-> MapInsert(current, layer_id, prev_layer),
                history |-> popped]
          ELSE [ok |-> FALSE, layers |-> current, history |-> popped]
  ELSE [ok |-> FALSE, layers |-> current, history |-> hist]

\* rollback_layer (lines 479-512): the pop at line 483 happens before the
\* layer is looked up in the current map; the index is not touched.
rollback_layer(current, hist, layer_id) ==
  IF layer_id \in DOMAIN hist /\ hist[layer_id] # <<>>
  THEN LET versions == hist[layer_id]
           prev_layer == versions[Len(versions)]
           popped == MapInsert(hist, layer_id, SubSeq(versions, 1, Len(versions) - 1))
       IN IF layer_id \in DOMAIN current
          THEN [ok |-> TRUE, layers |-> MapInsert(current, layer_id, prev_layer),
                history |-> popped]
          ELSE [ok |-> FALSE, layers |-> current, history |-> popped]
  ELSE [ok |-> FALSE, layers |-> current, history |-> hist]

get_layer(layers_map, layer_id) ==
  IF layer_id \in DOMAIN layers_map THEN Some(layers_map[layer_id]) ELSE None

get_layer_ids(layers_map) == DOMAIN layers_map

\* get_layers_for_service: index is the map loaded at line 526, layers_map
\* the one loaded at line 527.
RECURSIVE materialize_layers(_, _)
materialize_layers(layer_ids, layers_map) ==
  IF layer_ids = <<>> THEN <<>>
  ELSE LET rest == materialize_layers(Tail(layer_ids), layers_map) IN
       IF Head(layer_ids) \in DOMAIN layers_map /\ layers_map[Head(layer_ids)].enabled
       THEN <<layers_map[Head(layer_ids)]>> \o rest
       ELSE rest

get_layers_for_service(index, layers_map, service) ==
  IF service \in DOMAIN index THEN materialize_layers(index[service], layers_map)
  ELSE <<>>

(***************************************************************************)
(* rule.rs: Node, evaluate.  A result is [ok, v]: ok = FALSE is Err.       *)
(***************************************************************************)
NodeAnd(children) ==
  [type |-> "and", children |-> children, field |-> "", op |-> "", values |-> <<>>]

NodeOr(children) ==
  [type |-> "or", children |-> children, field |-> "", op |-> "", values |-> <<>>]

NodeNot(child) ==
  [type |-> "not", children |-> <<child>>, field |-> "", op |-> "", values |-> <<>>]

NodeField(field, op, values) ==
  [type |-> "field", children |-> <<>>, field |-> field, op |-> op, values |-> values]

RuleOk(v) == [ok |-> TRUE, v |-> v]

RuleErr == [ok |-> FALSE, v |-> FALSE]

CmpOk(o) == [ok |-> TRUE, ord |-> o]

CmpErr == [ok |-> FALSE, ord |-> "Equal"]

int_cmp(l, r) == IF l < r THEN "Less" ELSE IF l > r THEN "Greater" ELSE "Equal"

\* str::split(sep): the pieces between the separators, at least one piece.
RECURSIVE split_bytes(_, _, _)
split_bytes(bytes, sep, cur) ==
  IF bytes = <<>> THEN <<cur>>
  ELSE IF Head(bytes) = sep THEN <<cur>> \o split_bytes(Tail(bytes), sep, <<>>)
  ELSE split_bytes(Tail(bytes), sep, Append(cur, Head(bytes)))

\* str::parse::<u32>(): an optional '+', then one or more decimal digits;
\* -1 stands for Err.  The strings of the model have at most six digits, so
\* the u32::MAX overflow branch is cut off at seven digits.
RECURSIVE parse_digits(_, _)
parse_digits(bytes, acc) ==
  IF bytes = <<>> THEN acc
  ELSE IF Head(bytes) < 48 \/ Head(bytes) > 57 THEN -1
  ELSE IF acc > 99999 THEN -1
  ELSE parse_digits(Tail(bytes), acc * 10 + (Head(bytes) - 48))

parse_u32(bytes) ==
  LET body == IF bytes # <<>> /\ Head(bytes) = 43 THEN Tail(bytes) ELSE bytes
  IN IF body = <<>> THEN -1 ELSE parse_digits(body, 0)

RECURSIVE semver_parts(_)
semver_parts(pieces) ==
  IF pieces = <<>> THEN <<>>
  ELSE LET n == parse_u32(Head(pieces)) IN
       IF n < 0 THEN semver_parts(Tail(pieces)) ELSE <<n>> \o semver_parts(Tail(pieces))

\* Vec<u32>::cmp: lexicographic, a proper prefix is Less.
RECURSIVE vec_cmp(_, _)
vec_cmp(a, b) ==
  IF a = <<>> /\ b = <<>> THEN "Equal"
  ELSE IF a = <<>> THEN "Less"
  ELSE IF b = <<>> THEN "Greater"
  ELSE IF Head(a) # Head(b) THEN int_cmp(Head(a), Head(b))
  ELSE vec_cmp(Tail(a), Tail(b))

compare_semver(left, right) ==
  LET left_parts == semver_parts(split_bytes(left, 46, <<>>))
      right_parts == semver_parts(split_bytes(right, 46, <<>>))
  IN IF left_parts = <<>> \/ right_parts = <<>> THEN CmpErr
     ELSE CmpOk(vec_cmp(left_parts, right_parts))

starts_with(text, prefix) ==
  Len(prefix) <= Len(text) /\ SubSeq(text, 1, Len(prefix)) = prefix

ends_with(text, suffix) ==
  Len(suffix) <= Len(text) /\ SubSeq(text, Len(text) - Len(suffix) + 1, Len(text)) = suffix

contains(text, part) ==
  \E i \in 0..(Len(text) - Len(part)) : SubSeq(text, i + 1, i + Len(part)) = part

simple_pattern_match(text, pattern) ==
  LET parts == split_bytes(pattern, 42, <<>>) IN
  IF pattern = <<42>> THEN TRUE
  ELSE IF Len(parts) = 1 THEN text = pattern
  ELSE IF Head(pattern) = 42 /\ Len(parts) = 2 THEN ends_with(text, parts[2])
  ELSE IF pattern[Len(pattern)] = 42 /\ Len(parts) = 2 THEN starts_with(text, parts[1])
  ELSE IF Len(parts) = 2 THEN starts_with(text, parts[1]) /\ ends_with(text, parts[2])
  ELSE contains(text, parts[1])

compare_values(left, right, field_type) ==
  CASE field_type = "String" ->
         IF left.t = "str" /\ right.t = "str" THEN CmpOk(str_cmp(left.s, right.s)) ELSE CmpErr
    [] field_type = "Int" ->
         IF left.t = "num" /\ right.t = "num" THEN CmpOk(int_cmp(left.n, right.n)) ELSE CmpErr
    [] field_type = "Float" ->
         IF left.t = "num" /\ right.t = "num" THEN CmpOk(int_cmp(left.n, right.n)) ELSE CmpErr
    [] field_type = "Bool" ->
         IF left.t = "bool" /\ right.t = "bool" THEN CmpOk(int_cmp(left.n, right.n)) ELSE CmpErr
    [] field_type = "SemVer" ->
         IF left.t = "str" /\ right.t = "str"
         THEN compare_semver(as_bytes(left.s), as_bytes(right.s)) ELSE CmpErr

\* In / NotIn (lines 262-277): the first value that fails to compare is an
\* Err, the first Equal decides.
RECURSIVE any_equal(_, _, _)
any_equal(field_value, values, field_type) ==
  IF values = <<>> THEN RuleOk(FALSE)
  ELSE LET c == compare_values(field_value, Head(values), field_type) IN
       IF ~c.ok THEN RuleErr
       ELSE IF c.ord = "Equal" THEN RuleOk(TRUE)
       ELSE any_equal(field_value, Tail(values), field_type)

evaluate_field_op(field_value, op, values, field_type) ==
  IF op \in {"Eq", "Neq", "Gt", "Gte", "Lt", "Lte"}
  THEN IF Len(values) # 1 THEN RuleErr
       ELSE LET c == compare_values(field_value, values[1], field_type) IN
            IF ~c.ok THEN RuleErr
            ELSE RuleOk(CASE op = "Eq" -> c.ord = "Equal"
                          [] op = "Neq" -> c.ord # "Equal"
                          [] op = "Gt" -> c.ord = "Greater"
                          [] op = "Gte" -> c.ord \in {"Greater", "Equal"}
                          [] op = "Lt" -> c.ord = "Less"
                          [] op = "Lte" -> c.ord \in {"Less", "Equal"})
  ELSE IF op = "In" THEN any_equal(field_value, values, field_type)
  ELSE IF op = "NotIn"
       THEN LET r == any_equal(field_value, values, field_type) IN
            IF r.ok THEN RuleOk(~r.v) ELSE RuleErr
  ELSE IF op \in {"Like", "NotLike"}
       THEN IF Len(values) # 1 THEN RuleErr
            ELSE IF field_value.t = "str" /\ values[1].t = "str"
                 THEN LET m == simple_pattern_match(as_bytes(field_value.s), as_bytes(values[1].s))
                      IN RuleOk(IF op = "Like" THEN m ELSE ~m)
                 ELSE RuleErr
  ELSE RuleErr

RECURSIVE evaluate(_, _, _)
RECURSIVE evaluate_and(_, _, _)
RECURSIVE evaluate_or(_, _, _)
evaluate_and(children, ctx, ftypes) ==
  IF children = <<>> THEN RuleOk(TRUE)
  ELSE LET r == evaluate(Head(children), ctx, ftypes) IN
       IF ~r.ok THEN RuleErr
       ELSE IF ~r.v THEN RuleOk(FALSE)
       ELSE evaluate_and(Tail(children), ctx, ftypes)

\* Or deciding on its first child alone.
evaluate_or_first(children, ctx, ftypes) ==
  IF children = <<>> THEN RuleOk(FALSE)
  ELSE evaluate(Head(children), ctx, ftypes)

evaluate_or(children, ctx, ftypes) ==
  IF children = <<>> THEN RuleOk(FALSE)
  ELSE LET r == evaluate(Head(children), ctx, ftypes) IN
       IF ~r.ok THEN RuleErr
       ELSE IF r.v THEN RuleOk(TRUE)
       ELSE evaluate_or(Tail(children), ctx, ftypes)

evaluate(node, ctx, ftypes) ==
  CASE node.type = "and" -> evaluate_and(node.children, ctx, ftypes)
    [] node.type = "or" -> evaluate_or(node.children, ctx, ftypes)
    [] node.type = "not" ->
         LET r == evaluate(node.children[1], ctx, ftypes) IN
         IF r.ok THEN RuleOk(~r.v) ELSE RuleErr
    [] node.type = "field" ->
         IF node.field \notin DOMAIN ctx THEN RuleErr
         ELSE IF node.field \notin DOMAIN ftypes THEN RuleErr
         ELSE evaluate_field_op(ctx[node.field], node.op, node.values, ftypes[node.field])

\* validate_value_type (lines 178-200); every number of the model is an
\* integer, so is_i64 holds of each.
validate_value_type(value, field_type) ==
  CASE field_type = "String" -> value.t = "str"
    [] field_type = "Int" -> value.t = "num"
    [] field_type = "Float" -> value.t = "num"
    [] field_type = "Bool" -> value.t = "bool"
    [] field_type = "SemVer" ->
         IF value.t = "str" THEN Len(split_bytes(as_bytes(value.s), 46, <<>>)) >= 2
         ELSE FALSE

\* Node::validate (lines 68-125): TRUE for Ok(()).
RECURSIVE validate(_, _)
validate(node, ftypes) ==
  CASE node.type \in {"and", "or"} ->
         /\ node.children # <<>>
         /\ \A i \in 1..Len(node.children) : validate(node.children[i], ftypes)
    [] node.type = "not" -> validate(node.children[1], ftypes)
    [] node.type = "field" ->
         /\ node.field \in DOMAIN ftypes
         /\ node.values # <<>>
         /\ node.op \notin {"And", "Or", "Not"}
         /\ \A i \in 1..Len(node.values) :
              validate_value_type(node.values[i], ftypes[node.field])

(***************************************************************************)
(* merge.rs: merge_layers_batch.  A request is [services, context, layers];*)
(* a service result is [parameters, vids, matched_layers].                 *)
(***************************************************************************)
ExperimentRequest(services, context, layer_ids) ==
  [services |-> services, context |-> context, layers |-> layer_ids]

\* Lines 73-99: the hash key value as a byte string, None when the layer is
\* to be skipped.
\* A missing hash key read as the empty string.
hash_key_value_or_empty(context, layer) ==
  IF layer.hash_key \notin DOMAIN context THEN Some(<<>>)
  ELSE LET x == context[layer.hash_key] IN
       IF x.t = "str" THEN Some(as_bytes(x.s))
       ELSE IF x.t = "num" THEN Some(number_to_string(x.n))
       ELSE None

hash_key_value(context, layer) ==
  IF layer.hash_key \notin DOMAIN context THEN None
  ELSE LET x == context[layer.hash_key] IN
       IF x.t = "str" THEN Some(as_bytes(x.s))
       ELSE IF x.t = "num" THEN Some(number_to_string(x.n))
       ELSE None

\* Line 118 without the comparison: every variant is taken for the service.
service_matches_any(variant_service, service) == TRUE

\* Line 118.
service_matches(variant_service, service) == variant_service = service

\* Lines 122-140: TRUE when the variant passes its experiment's rule.
rule_passed(rule_opt, context, ftypes) ==
  IF ~rule_opt.some THEN TRUE
  ELSE LET r == evaluate(rule_opt.v, context, ftypes) IN
       IF r.ok THEN r.v ELSE FALSE

\* Lines 101-116: the variant a layer assigns to the request, None for a
\* skipped layer.
matched_vid(layer, context) ==
  LET k == hash_key_value(context, layer) IN
  IF ~k.some THEN None
  ELSE get_vid(layer, hash_to_bucket(k.v, get_salt(layer)))

\* The loop of lines 72-145 over the candidate layers.
RECURSIVE merge_layers_loop(_, _, _, _, _, _)
merge_layers_loop(service, request, candidates, cat, ftypes, acc) ==
  IF candidates = <<>> THEN acc
  ELSE LET layer == Head(candidates)
           rest == Tail(candidates)
           vid == matched_vid(layer, request.context)
       IN IF ~vid.some THEN merge_layers_loop(service, request, rest, cat, ftypes, acc)
          ELSE LET variant == get_variant(cat, vid.v) IN
               IF ~variant.some
               THEN merge_layers_loop(service, request, rest, cat, ftypes, acc)
               ELSE IF ~service_matches(variant.v.service, service)
               THEN merge_layers_loop(service, request, rest, cat, ftypes, acc)
               ELSE IF ~rule_passed(variant.v.rule, request.context, ftypes)
               THEN merge_layers_loop(service, request, rest, cat, ftypes, acc)
               ELSE LET m == merge_params_prioritized(acc.parameters, variant.v.params) IN
                    IF ~m.ok
                    THEN [ok |-> FALSE, parameters |-> acc.parameters, vids |-> acc.vids,
                          matched_layers |-> acc.matched_layers]
                    ELSE merge_layers_loop(service, request, rest, cat, ftypes,
                           [ok |-> TRUE, parameters |-> m.map,
                            vids |-> Append(acc.vids, vid.v),
                            matched_layers |-> Append(acc.matched_layers, layer.layer_id)])

EmptyServiceResult ==
  [ok |-> TRUE, parameters |-> EmptyMap, vids |-> <<>>, matched_layers |-> <<>>]

\* Lines 65-69: the explicit list, unknown ids dropped.
RECURSIVE explicit_layers(_, _)
explicit_layers(layer_ids, layers_map) ==
  IF layer_ids = <<>> THEN <<>>
  ELSE LET l == get_layer(layers_map, Head(layer_ids)) IN
       (IF l.some THEN <<l.v>> ELSE <<>>) \o explicit_layers(Tail(layer_ids), layers_map)

candidate_layers_from_index(service, request, index, layers_map) ==
  get_layers_for_service(index, layers_map, service)

\* Lines 62-70.
candidate_layers(service, request, index, layers_map) ==
  IF request.layers = <<>> THEN get_layers_for_service(index, layers_map, service)
  ELSE explicit_layers(request.layers, layers_map)

merge_layers_for_service(service, request, index, layers_map, cat, ftypes) ==
  merge_layers_loop(service, request,
                    candidate_layers(service, request, index, layers_map),
                    cat, ftypes, EmptyServiceResult)

\* merge_layers_batch: the first failing service fails the request; a
\* service named twice is evaluated twice and keeps one entry.
RECURSIVE merge_layers_batch_loop(_, _, _, _, _, _, _)
merge_layers_batch_loop(services, request, index, layers_map, cat, ftypes, results) ==
  IF services = <<>> THEN [ok |-> TRUE, results |-> results]
  ELSE LET r == merge_layers_for_service(Head(services), request, index, layers_map,
                                         cat, ftypes) IN
       IF ~r.ok THEN [ok |-> FALSE, results |-> EmptyMap]
       ELSE merge_layers_batch_loop(Tail(services), request, index, layers_map, cat,
                                    ftypes, MapInsert(results, Head(services), r))

merge_layers_batch(request, index, layers_map, cat, ftypes) ==
  merge_layers_batch_loop(request.services, request, index, layers_map, cat, ftypes,
                          EmptyMap)

(***************************************************************************)
(* Inputs of the catalog operations.                                       *)
(***************************************************************************)
MaxEid == 2
MaxVid == 2
MaxVariants == 2
MaxLoad == 2

Services == {"A", "B"}

Eids == 1..MaxEid

Vids == 1..MaxVid

CatVariants == {VariantDef(v, JObj("k" :> JNum(v))) : v \in Vids}

CatVariantSeqs == UNION {[1..n -> CatVariants] : n \in 0..MaxVariants}

\* The catalog operations never look at the service: one service per eid.
CatService(e) == IF e = 1 THEN "A" ELSE "B"

CatDefs == {ExperimentDef(e, CatService(e), None, vs) : e \in Eids, vs \in CatVariantSeqs}

\* Lists handed to from_experiments: definitions of one variant each.
CatLoadDefs == {d \in CatDefs : Len(d.variants) = 1}

CatLoads == UNION {[1..n -> CatLoadDefs] : n \in 0..MaxLoad}

NoLayers == EmptyMap

Last(op, ok, eid, layer_id) == [op |-> op, ok |-> ok, eid |-> eid, layer_id |-> layer_id]

NoResponse == [status |-> "none", request |-> <<>>, results |-> <<>>]

IdleJob == [kind |-> "none"]

(***************************************************************************)
(* SpecCatalog: the catalog object under any sequence of its operations.   *)
(***************************************************************************)
InitCatalog ==
  /\ \E vec \in CatLoads :
       /\ from_experiments(vec).ok
       /\ catalog = from_experiments(vec).catalog
  /\ layers = NoLayers
  /\ service_index = EmptyMap
  /\ history = EmptyMap
  /\ field_types = EmptyMap
  /\ last = Last("from_experiments", TRUE, 0, "")
  /\ response = NoResponse
  /\ wpc = "idle" /\ wjob = IdleJob
  /\ rpc = "idle" /\ rjob = IdleJob

\* main.rs 152-153: the new catalog replaces the old one only when
\* from_experiments succeeded.
CatFromExperiments ==
  \E vec \in CatLoads :
    LET r == from_experiments(vec) IN
    /\ catalog' = IF r.ok THEN r.catalog ELSE catalog
    /\ last' = Last("from_experiments", r.ok, 0, "")
    /\ UNCHANGED <<lmVars, response, concVars>>

CatUpdateExperiment ==
  \E exp_def \in CatDefs :
    LET r == update_experiment(catalog, exp_def) IN
    /\ catalog' = r.catalog
    /\ last' = Last("update_experiment", r.ok, exp_def.eid, "")
    /\ UNCHANGED <<lmVars, response, concVars>>

CatRemoveExperiment ==
  \E eid \in Eids :
    /\ catalog' = remove_experiment(catalog, eid)
    /\ last' = Last("remove_experiment", TRUE, eid, "")
    /\ UNCHANGED <<lmVars, response, concVars>>

NextCatalog == CatFromExperiments \/ CatUpdateExperiment \/ CatRemoveExperiment

SpecCatalog == InitCatalog /\ [][NextCatalog]_vars

(***************************************************************************)
(* Inputs of the server: experiments, layer files, requests.               *)
(***************************************************************************)
MaxHistory == 1

LayerIds == {"L1", "L2"}

ParamsHigh == JObj(("timeout" :> JNum(100)) @@ ("feature_a" :> JBool(TRUE)))

ParamsLow == JObj(("timeout" :> JNum(200)) @@ ("feature_b" :> JBool(TRUE)))

ParamsOther == JObj(("timeout" :> JNum(300)) @@ ("config" :> JObj(("hi" :> JStr("v1")))))

RuleCN == NodeField("country", "Eq", <<JStr("CN")>>)

Exp1 == ExperimentDef(1, "A", None, <<VariantDef(1, ParamsHigh)>>)

Exp2 == ExperimentDef(2, "A", None, <<VariantDef(2, ParamsLow)>>)

Exp3 == ExperimentDef(3, "B", Some(RuleCN), <<VariantDef(3, ParamsOther)>>)

\* A variant whose params is a JSON number.
Exp4 == ExperimentDef(4, "A", None, <<VariantDef(4, JNum(5))>>)

\* eid 2 moved to service B.
Exp2B == ExperimentDef(2, "B", None, <<VariantDef(2, ParamsLow)>>)

\* eid 3 redefined with a vid that eid 1 owns.
Exp3Clash == ExperimentDef(3, "B", None, <<VariantDef(1, ParamsOther)>>)

InitialExperiments == <<Exp1, Exp2, Exp3, Exp4>>

ExperimentUpdates == {Exp2B, Exp3Clash}

ExperimentDeletes == {3}

LayerCfg(layer_id, version, priority, ranges, enabled) ==
  Layer(layer_id, version, priority, "user_id", None, ranges, enabled)

\* L1 v1: priority 3, spans services A (vid 1) and B (vid 3); ranges unsorted.
L1a == LayerCfg("L1", "v1", 3, <<BucketRange(3000, 10000, 3), BucketRange(0, 3000, 1)>>, TRUE)

\* L1 v2: priority 1, disabled, a hole above bucket 3000.
L1b == LayerCfg("L1", "v2", 1, <<BucketRange(0, 3000, 1)>>, FALSE)

\* L2 v1: priority 2, service A through vid 2 and vid 4.
L2a == LayerCfg("L2", "v1", 2, <<BucketRange(0, 3000, 2), BucketRange(3000, 10000, 4)>>, TRUE)

\* Overlapping ranges: rejected by validate_and_sort_ranges.
L2bad == LayerCfg("L2", "v2", 2, <<BucketRange(0, 3000, 2), BucketRange(2000, 4000, 4)>>, TRUE)

LayerCfgs == {L1a, L1b, L2a, L2bad}

Dir(files) == [exists |-> TRUE, files |-> files]

InitialDir == Dir(<<L1a, L2a>>)

FullReloads ==
  {[layers |-> <<L1a, L2a>>, experiments |-> InitialExperiments],
   [layers |-> <<L2bad, L1b>>, experiments |-> <<Exp1, Exp2B>>],
   [layers |-> <<L1a>>, experiments |-> <<Exp1, Exp3Clash>>]}

DefaultFieldTypes == ("country" :> "String") @@ ("user_id" :> "String")

FieldTypeMaps == {EmptyMap, DefaultFieldTypes}

\* A context without the layers' hash key.
ContextNoKey == ("country" :> JStr("US"))

Contexts ==
  {("user_id" :> JStr("u1")) @@ ("country" :> JStr("CN")),
   ("user_id" :> JNum(7)) @@ ("country" :> JStr("CN")),
   ContextNoKey}

RequestLayers == {<<>>, <<"L2", "L1">>, <<"L1", "L9", "L1">>}

Requests ==
  {ExperimentRequest(<<"A", "B">>, ctx, ls) : ctx \in Contexts \ {ContextNoKey},
                                               ls \in RequestLayers}
  \cup {ExperimentRequest(<<"B">>, ContextNoKey, <<>>),
        ExperimentRequest(<<"B", "A", "B">>, ContextNoKey, <<"L2", "L1">>)}

Response(status, request, results) ==
  [status |-> status, request |-> request, results |-> results]

(***************************************************************************)
(* Spec: the server with every handler as one step.                        *)
(***************************************************************************)
Init ==
  /\ catalog = from_experiments(InitialExperiments).catalog
  /\ layers = load_all_layers_new(InitialDir).v
  /\ \E order \in iteration_orders(DOMAIN load_all_layers_new(InitialDir).v) :
       service_index = rebuild_service_index(load_all_layers_new(InitialDir).v,
                         from_experiments(InitialExperiments).catalog, order)
  /\ history = EmptyMap
  /\ field_types = DefaultFieldTypes
  /\ last = Last("main", TRUE, 0, "")
  /\ response = NoResponse
  /\ wpc = "idle" /\ wjob = IdleJob
  /\ rpc = "idle" /\ rjob = IdleJob

HistoryRoom(layer_id) ==
  IF layer_id \in DOMAIN history THEN Len(history[layer_id]) < MaxHistory ELSE TRUE

\* main.rs 141-159.
FullReloadWith(changes) ==
  \E change \in changes :
    LET r == from_experiments(change.experiments)
        new_layers == load_all_layers_new(Dir(change.layers)).v
    IN IF ~r.ok
       THEN /\ last' = Last("FullReload", FALSE, 0, "")
            /\ response' = NoResponse
            /\ UNCHANGED <<catalog, lmVars, concVars>>
       ELSE /\ catalog' = r.catalog
            /\ layers' = new_layers
            /\ \E order \in iteration_orders(DOMAIN new_layers) :
                 service_index' = rebuild_service_index(new_layers, r.catalog, order)
            /\ last' = Last("FullReload", TRUE, 0, "")
            /\ response' = NoResponse
            /\ UNCHANGED <<history, field_types, concVars>>

FullReload == FullReloadWith(FullReloads)

\* main.rs 160-163 with layer.rs load_layer; layer_id is the id the change
\* is filed under.
LayerUpdateStep(layer_id, cfg) ==
  LET r == load_layer_new(layers, history, layer_id, cfg) IN
  /\ IF ~r.ok
     THEN UNCHANGED <<layers, service_index, history>>
     ELSE /\ layers' = r.new_layers
          /\ history' = r.history
          /\ \E order \in iteration_orders(DOMAIN r.new_layers) :
               service_index' = rebuild_service_index(r.new_layers, catalog, order)
  /\ last' = Last("LayerUpdate", r.ok, 0, "")
  /\ response' = NoResponse
  /\ UNCHANGED <<catalog, field_types>>

LayerUpdateWith(layer_ids, cfgs) ==
  \E layer_id \in layer_ids, cfg \in cfgs :
    /\ IF layer_id \in DOMAIN layers THEN HistoryRoom(layer_id) ELSE TRUE
    /\ LayerUpdateStep(layer_id, cfg)
    /\ UNCHANGED concVars

LayerUpdate == LayerUpdateWith(LayerIds, LayerCfgs)

\* main.rs 164-169 with layer.rs remove_layer.
LayerDeleteWith(layer_ids) ==
  \E layer_id \in layer_ids :
    LET r == remove_layer_new(layers, layer_id) IN
    /\ IF ~r.ok
       THEN UNCHANGED <<layers, service_index>>
       ELSE /\ layers' = r.new_layers
            /\ \E order \in iteration_orders(DOMAIN r.new_layers) :
                 service_index' = rebuild_service_index(r.new_layers, catalog, order)
    /\ last' = Last("LayerDelete", r.ok, 0, "")
    /\ response' = NoResponse
    /\ UNCHANGED <<catalog, history, field_types, concVars>>

LayerDelete == LayerDeleteWith(LayerIds)

\* main.rs 170-184: a successful update reloads the current layers, which
\* rebuilds the index against the updated catalog.
ExperimentUpdateWith(exp_defs) ==
  \E exp_def \in exp_defs :
    LET r == update_experiment(catalog, exp_def) IN
    /\ catalog' = r.catalog
    /\ IF ~r.ok
       THEN UNCHANGED service_index
       ELSE \E order \in iteration_orders(DOMAIN layers) :
              service_index' = rebuild_service_index(layers, r.catalog, order)
    /\ last' = Last("ExperimentUpdate", r.ok, 0, "")
    /\ response' = NoResponse
    /\ UNCHANGED <<layers, history, field_types, concVars>>

ExperimentUpdate == ExperimentUpdateWith(ExperimentUpdates)

\* main.rs 185-188.
ExperimentDelete ==
  \E eid \in ExperimentDeletes :
    /\ catalog' = remove_experiment(catalog, eid)
    /\ last' = Last("ExperimentDelete", TRUE, 0, "")
    /\ response' = NoResponse
    /\ UNCHANGED <<lmVars, concVars>>

\* server.rs 120-130.
\* The rollback handler answering 200 whatever rollback_layer returned.
RollbackStepAlwaysOk(layer_id) ==
  LET r == rollback_layer(layers, history, layer_id) IN
  /\ layers' = r.layers
  /\ history' = r.history
  /\ last' = Last("rollback_layer", TRUE, 0, "")
  /\ response' = NoResponse
  /\ UNCHANGED <<catalog, service_index, field_types>>

RollbackStep(layer_id) ==
  LET r == rollback_layer(layers, history, layer_id) IN
  /\ layers' = r.layers
  /\ history' = r.history
  /\ last' = Last("rollback_layer", r.ok, 0, "")
  /\ response' = NoResponse
  /\ UNCHANGED <<catalog, service_index, field_types>>

RollbackLayer == \E layer_id \in LayerIds : RollbackStep(layer_id) /\ UNCHANGED concVars

\* server.rs 137-150.
UpdateFieldTypesWith(maps) ==
  \E new_field_types \in maps :
    /\ field_types' = new_field_types
    /\ last' = Last("update_field_types", TRUE, 0, "")
    /\ response' = NoResponse
    /\ UNCHANGED <<catalog, layers, service_index, history, concVars>>

UpdateFieldTypes == UpdateFieldTypesWith(FieldTypeMaps)

\* server.rs 71-99.
ExperimentHandlerWith(requests) ==
  \E request \in requests :
    LET r == merge_layers_batch(request, service_index, layers, catalog, field_types) IN
    /\ response' = Response(IF r.ok THEN "ok" ELSE "error", request, r.results)
    /\ last' = Last("experiment_handler", r.ok, 0, "")
    /\ UNCHANGED <<catalog, lmVars, concVars>>

ExperimentHandler == ExperimentHandlerWith(Requests)

Next ==
  \/ FullReload
  \/ LayerUpdate
  \/ LayerDelete
  \/ ExperimentUpdate
  \/ ExperimentDelete
  \/ RollbackLayer
  \/ UpdateFieldTypes
  \/ ExperimentHandler

Spec == Init /\ [][Next]_vars

(***************************************************************************)
(* SpecConc: one request evaluated step by step while the config applier   *)
(* and the admin rollback run.  The applier's stores are separate steps    *)
(* (service_index.store, then layers.store); the request holds the catalog *)
(* read lock from its start to its response and loads the service index    *)
(* and the layer map separately for each service.  At most one change      *)
(* overlaps one request.  Requests carry no explicit layers list.          *)
(***************************************************************************)
Change(kind, layer_id, cfgs, exps) ==
  [kind |-> kind, layer_id |-> layer_id, layers |-> cfgs, experiments |-> exps]

ConcChanges ==
  {Change("LayerUpdate", "L1", <<L1b>>, <<>>),
   Change("LayerUpdate", "L1", <<L1a>>, <<>>),
   Change("LayerDelete", "L2", <<>>, <<>>),
   Change("FullReload", "", <<L1a, L2a>>, InitialExperiments),
   Change("FullReload", "", <<L1a>>, <<Exp1, Exp3Clash>>),
   Change("ExperimentUpdate", "", <<>>, <<Exp2B>>),
   Change("ExperimentUpdate", "", <<>>, <<Exp3Clash>>)}

ConcRequests ==
  {ExperimentRequest(<<"A", "B">>, ("user_id" :> JStr("u1")) @@ ("country" :> JStr("CN")),
                     <<>>)}

\* A configuration: what one request can read.
Config(cat, layers_map, index) == [catalog |-> cat, layers |-> layers_map, index |-> index]

Current == Config(catalog, layers, service_index)

\* merge_layers_batch against one configuration, as the handler answers it.
BatchResponse(request, cfg) ==
  LET r == merge_layers_batch(request, cfg.index, cfg.layers, cfg.catalog, field_types)
  IN Response(IF r.ok THEN "ok" ELSE "error", request, r.results)

WriterJob(change, new_layers, before) ==
  [kind |-> change.kind, change |-> change, new_layers |-> new_layers, before |-> before]

ReaderJob(request, services, results, index, ok, before, changes) ==
  [kind |-> "request", request |-> request, services |-> services, results |-> results,
   index |-> index, ok |-> ok, before |-> before, changes |-> changes]

\* The request in flight notes that a change overlaps it.
NoteChange ==
  IF rpc = "idle" THEN UNCHANGED rjob
  ELSE /\ rjob.changes = 0
       /\ rjob' = [rjob EXCEPT !.changes = 1]

\* A change that ends without a store.
WriterFails(op) ==
  /\ wpc' = "idle" /\ wjob' = IdleJob
  /\ last' = Last(op, FALSE, 0, "")

\* handle_config_change up to its first store (main.rs 135-192; layer.rs
\* 411-438 and 461-465): the layer map is loaded, the old version pushed.
WriterBeginWith(changes) ==
  /\ wpc = "idle"
  /\ \E change \in changes :
       CASE change.kind = "LayerUpdate" ->
              LET r == load_layer_new(layers, history, change.layer_id, change.layers[1]) IN
              /\ IF change.layer_id \in DOMAIN layers THEN HistoryRoom(change.layer_id)
                 ELSE TRUE
              /\ IF ~r.ok
                 THEN WriterFails("LayerUpdate") /\ UNCHANGED <<history, rjob>>
                 ELSE /\ history' = r.history
                      /\ wjob' = WriterJob(change, r.new_layers, Current)
                      /\ wpc' = "index"
                      /\ NoteChange
                      /\ UNCHANGED last
         [] change.kind = "LayerDelete" ->
              LET r == remove_layer_new(layers, change.layer_id) IN
              IF ~r.ok
              THEN WriterFails("LayerDelete") /\ UNCHANGED <<history, rjob>>
              ELSE /\ wjob' = WriterJob(change, r.new_layers, Current)
                   /\ wpc' = "index"
                   /\ NoteChange
                   /\ UNCHANGED <<history, last>>
         [] change.kind = "FullReload" ->
              IF ~from_experiments(change.experiments).ok
              THEN WriterFails("FullReload") /\ UNCHANGED <<history, rjob>>
              ELSE /\ wjob' = WriterJob(change, load_all_layers_new(Dir(change.layers)).v,
                                        Current)
                   /\ wpc' = "catalog"
                   /\ NoteChange
                   /\ UNCHANGED <<history, last>>
         [] change.kind = "ExperimentUpdate" ->
              /\ wjob' = WriterJob(change, layers, Current)
              /\ wpc' = "catalog"
              /\ NoteChange
              /\ UNCHANGED <<history, last>>
  /\ UNCHANGED <<catalog, layers, service_index, field_types, response, rpc>>

WriterBegin == WriterBeginWith(ConcChanges)

\* catalog.write(): waits until no request holds the read lock.
WriterCatalog ==
  /\ wpc = "catalog"
  /\ rpc = "idle"
  /\ IF wjob.kind = "FullReload"
     THEN /\ catalog' = from_experiments(wjob.change.experiments).catalog
          /\ wpc' = "index"
          /\ UNCHANGED <<wjob, last>>
     ELSE LET r == update_experiment(catalog, wjob.change.experiments[1]) IN
          /\ catalog' = r.catalog
          /\ IF r.ok
             THEN /\ wpc' = "index"
                  /\ wjob' = [wjob EXCEPT !.new_layers = layers]
                  /\ UNCHANGED last
             ELSE WriterFails("ExperimentUpdate")
  /\ UNCHANGED <<lmVars, response, rpc, rjob>>

\* rebuild_service_index, ending in service_index.store (layer.rs 351).
WriterIndex ==
  /\ wpc = "index"
  /\ \E order \in iteration_orders(DOMAIN wjob.new_layers) :
       service_index' = rebuild_service_index(wjob.new_layers, catalog, order)
  /\ wpc' = "layers"
  /\ UNCHANGED <<catalog, layers, history, field_types, last, response, wjob, rpc, rjob>>

\* layers.store (layer.rs 405, 455, 469).
WriterLayers ==
  /\ wpc = "layers"
  /\ layers' = wjob.new_layers
  /\ wpc' = "idle" /\ wjob' = IdleJob
  /\ last' = Last(wjob.kind, TRUE, 0, "")
  /\ UNCHANGED <<catalog, service_index, history, field_types, response, rpc, rjob>>

\* server.rs 120-130 with layer.rs rollback_layer, from its history.write()
\* to its layers.store; AdminRollback takes it between two changes of the
\* applier.
AdminRollbackStep ==
  /\ \E layer_id \in LayerIds :
       LET r == rollback_layer(layers, history, layer_id) IN
       /\ layers' = r.layers
       /\ history' = r.history
       /\ last' = Last("rollback_layer", r.ok, 0, "")
       /\ IF r.ok THEN NoteChange ELSE UNCHANGED rjob
  /\ UNCHANGED <<catalog, service_index, field_types, response, wpc, wjob, rpc>>

AdminRollback == wpc = "idle" /\ AdminRollbackStep

\* server/grpc.rs 39-46: the request takes the catalog read lock.  A change
\* that has already stored something overlaps the request.
ReaderBegin ==
  /\ rpc = "idle"
  /\ \E request \in ConcRequests :
       rjob' = ReaderJob(request, request.services, EmptyMap, None, TRUE,
                         IF wpc \in {"index", "layers"} THEN wjob.before ELSE Current,
                         IF wpc \in {"index", "layers"} THEN 1 ELSE 0)
  /\ rpc' = "index"
  /\ response' = NoResponse
  /\ UNCHANGED <<catalog, lmVars, last, wpc, wjob>>

\* get_layers_for_service, line 526: service_index.load().
ReaderLoadIndex ==
  /\ rpc = "index"
  /\ LET service == Head(rjob.services) IN
     rjob' = [rjob EXCEPT !.index = IF service \in DOMAIN service_index
                                    THEN Some(service_index[service]) ELSE None]
  /\ rpc' = "layers"
  /\ UNCHANGED <<catalog, lmVars, last, response, wpc, wjob>>

\* get_layers_for_service, lines 527-537: layers.load(), then the loop of
\* merge_layers_for_service over the layers found.
ReaderLoadLayers ==
  /\ rpc = "layers"
  /\ LET service == Head(rjob.services)
         found == IF rjob.index.some THEN materialize_layers(rjob.index.v, layers)
                  ELSE <<>>
         r == merge_layers_loop(service, rjob.request, found, catalog, field_types,
                                EmptyServiceResult)
     IN IF ~r.ok
        THEN /\ rjob' = [rjob EXCEPT !.ok = FALSE, !.results = EmptyMap]
             /\ rpc' = "respond"
        ELSE /\ rjob' = [rjob EXCEPT !.results = MapInsert(rjob.results, service, r),
                                     !.services = Tail(rjob.services), !.index = None]
             /\ rpc' = IF Tail(rjob.services) = <<>> THEN "respond" ELSE "index"
  /\ UNCHANGED <<catalog, lmVars, last, response, wpc, wjob>>

\* The response leaves and the catalog read lock is released.
ReaderRespond ==
  /\ rpc = "respond"
  /\ response' = Response(IF rjob.ok THEN "ok" ELSE "error", rjob.request, rjob.results)
  /\ last' = Last("experiment_handler", rjob.ok, 0, "")
  /\ rpc' = "idle" /\ rjob' = IdleJob
  /\ UNCHANGED <<catalog, lmVars, wpc, wjob>>

NextConc ==
  \/ WriterBegin
  \/ WriterCatalog
  \/ WriterIndex
  \/ WriterLayers
  \/ AdminRollback
  \/ ReaderBegin
  \/ ReaderLoadIndex
  \/ ReaderLoadLayers
  \/ ReaderRespond

SpecConc == Init /\ [][NextConc]_vars

(***************************************************************************)
(* SpecLayers: the layer manager under every delivery path of a layer      *)
(* (directory load, file-watcher LayerUpdate, xDS LayerUpdate, delete)     *)
(* against a fixed catalog, with layers of equal priority and a layer      *)
(* whose range names a vid the catalog does not hold.                      *)
(***************************************************************************)
\* L1 v3: priority 2 (the priority of L2), the upper range names vid 9,
\* which no experiment defines.
L1t == LayerCfg("L1", "v3", 2, <<BucketRange(0, 3000, 1), BucketRange(3000, 10000, 9)>>, TRUE)

\* A Layer message as the control plane may send it: overlapping ranges, the
\* second one ending above BUCKET_SIZE.
XdsL1 == LayerCfg("L1", "v2", 1, <<BucketRange(0, 3000, 1), BucketRange(2000, 12000, 3)>>, TRUE)

XdsLayers == {XdsL1, L2a}

FileLayerCfgs == {L1a, L1b, L1t, L2a, L2bad}

LayerReloads ==
  {[layers |-> <<L1a, L2a>>, experiments |-> InitialExperiments],
   [layers |-> <<L2bad, L1t>>, experiments |-> InitialExperiments]}

LayerRequests ==
  {ExperimentRequest(<<"A", "B">>, ctx, <<>>) : ctx \in Contexts \ {ContextNoKey}}

\* xds_client.rs 313-335: the fields of the message, taken as they are.
convert_layer_from_proto(proto_layer) ==
  Layer(proto_layer.layer_id, proto_layer.version, proto_layer.priority,
        proto_layer.hash_key, proto_layer.salt, proto_layer.ranges, proto_layer.enabled)

\* update(layer, catalog): if a previous version exists, push it to the
\* history stack, then insert the new one.
update_layer_new(current, hist, layer) ==
  [new_layers |-> MapInsert(current, layer.layer_id, layer),
   history |-> IF layer.layer_id \in DOMAIN current
               THEN MapInsert(hist, layer.layer_id,
                              Append(IF layer.layer_id \in DOMAIN hist
                                     THEN hist[layer.layer_id] ELSE <<>>,
                                     current[layer.layer_id]))
               ELSE hist]

\* xds_client.rs 284-297 and main.rs 160-163: a LayerUpdate event carrying
\* the converted message.
XdsLayerUpdate ==
  \E proto_layer \in XdsLayers :
    LET layer == convert_layer_from_proto(proto_layer)
        r == update_layer_new(layers, history, layer)
    IN /\ IF layer.layer_id \in DOMAIN layers THEN HistoryRoom(layer.layer_id) ELSE TRUE
       /\ layers' = r.new_layers
       /\ history' = r.history
       /\ \E order \in iteration_orders(DOMAIN r.new_layers) :
            service_index' = rebuild_service_index(r.new_layers, catalog, order)
       /\ last' = Last("LayerUpdate", TRUE, 0, "xds")
       /\ response' = NoResponse
       /\ UNCHANGED <<catalog, field_types, concVars>>

NextLayers ==
  \/ FullReloadWith(LayerReloads)
  \/ LayerUpdateWith(LayerIds, FileLayerCfgs)
  \/ XdsLayerUpdate
  \/ LayerDeleteWith(LayerIds)
  \/ ExperimentHandlerWith(LayerRequests)

SpecLayers == Init /\ [][NextLayers]_vars

(***************************************************************************)
(* SpecHistory: a manager that starts without layers receives a script of  *)
(* versions of one layer as LayerUpdate changes, and the layer is then     *)
(* rolled back through POST /rollback/:layer_id until the endpoint has     *)
(* failed twice.                                                           *)
(***************************************************************************)
MaxVersions == 3

HistVersions == {L1a, L1b, L1t}

VersionScripts == UNION {[1..n -> HistVersions] : n \in 1..MaxVersions}

ScriptJob(versions, installed, rollbacks) ==
  [kind |-> "script", versions |-> versions, installed |-> installed,
   rollbacks |-> rollbacks]

InitHistory ==
  \E versions \in VersionScripts :
    /\ catalog = from_experiments(InitialExperiments).catalog
    /\ layers = NoLayers
    /\ service_index = rebuild_service_index(NoLayers,
                         from_experiments(InitialExperiments).catalog, <<>>)
    /\ history = EmptyMap
    /\ field_types = DefaultFieldTypes
    /\ last = Last("main", TRUE, 0, "")
    /\ response = NoResponse
    /\ wpc = "idle" /\ wjob = ScriptJob(versions, 0, 0)
    /\ rpc = "idle" /\ rjob = IdleJob

ScriptInstall ==
  /\ wjob.installed < Len(wjob.versions)
  /\ LayerUpdateStep("L1", wjob.versions[wjob.installed + 1])
  /\ wjob' = [wjob EXCEPT !.installed = @ + 1]
  /\ UNCHANGED <<wpc, rpc, rjob>>

ScriptRollback ==
  /\ wjob.installed = Len(wjob.versions)
  /\ wjob.rollbacks < wjob.installed + 1
  /\ RollbackStep("L1")
  /\ wjob' = [wjob EXCEPT !.rollbacks = @ + 1]
  /\ UNCHANGED <<wpc, rpc, rjob>>

NextHistory == ScriptInstall \/ ScriptRollback

SpecHistory == InitHistory /\ [][NextHistory]_vars

(***************************************************************************)
(* SpecGate: one layer sends every request to vid 1 of experiment 1, whose *)
(* rule is replaced by ExperimentUpdate changes; the field types are       *)
(* replaced through POST /field_types.                                     *)
(***************************************************************************)
LG == LayerCfg("L1", "v1", 1, <<BucketRange(0, 10000, 1)>>, TRUE)

GateExp(rule) == ExperimentDef(1, "A", Some(rule), <<VariantDef(1, ParamsHigh)>>)

\* (country IN {US, CA}) AND (age >= 18 OR premium == true)
RuleExample ==
  NodeAnd(<<NodeField("country", "In", <<JStr("US"), JStr("CA")>>),
            NodeOr(<<NodeField("age", "Gte", <<JNum(18)>>),
                     NodeField("premium", "Eq", <<JBool(TRUE)>>)>>)>>)

NestedRules ==
  {RuleExample,
   NodeNot(RuleExample),
   NodeOr(<<NodeNot(NodeField("country", "In", <<JStr("US"), JStr("CA")>>)),
            NodeAnd(<<NodeField("age", "Lt", <<JNum(18)>>),
                      NodeNot(NodeField("premium", "Eq", <<JBool(TRUE)>>))>>)>>)}

\* Rules that Node::validate rejects under GateFieldTypes.
DefectiveRules ==
  {NodeField("country", "NotIn", <<>>),
   NodeField("country", "In", <<>>),
   NodeField("zip", "Eq", <<JStr("US")>>),
   NodeField("country", "And", <<JStr("US")>>),
   NodeField("age", "In", <<JNum(25), JStr("US")>>),
   NodeField("age", "Eq", <<JStr("US")>>),
   NodeOr(<<NodeField("premium", "Eq", <<JBool(TRUE)>>),
            NodeField("zip", "Eq", <<JStr("US")>>)>>)}

SemVerRules ==
  {NodeField("version", op, <<JStr("1.2.0")>>) :
     op \in {"Eq", "Neq", "Gt", "Gte", "Lt", "Lte"}}

LikeRules ==
  {NodeField("name", "Like", <<JStr(pattern)>>) : pattern \in {"*", "a*", "*a", "a*a", "ab"}}

GateRules == NestedRules \cup DefectiveRules \cup SemVerRules \cup LikeRules

GateExperiments == {GateExp(rule) : rule \in GateRules}

GateFieldTypes ==
  ("user_id" :> "String") @@ ("country" :> "String") @@ ("age" :> "Int")
  @@ ("premium" :> "Bool") @@ ("version" :> "SemVer") @@ ("name" :> "String")

\* The field types without age, and with age declared a String.
GateFieldTypeMaps ==
  {GateFieldTypes,
   [f \in DOMAIN GateFieldTypes \ {"age"} |-> GateFieldTypes[f]],
   [GateFieldTypes EXCEPT !["age"] = "String"]}

GateContext(country, age, premium, version, name) ==
  ("user_id" :> JStr("u1")) @@ ("country" :> JStr(country)) @@ ("age" :> JNum(age))
  @@ ("premium" :> JBool(premium)) @@ ("version" :> JStr(version))
  @@ ("name" :> JStr(name))

GateContexts ==
  {GateContext("US", 25, FALSE, "1.2", "a"),
   GateContext("CA", 16, TRUE, "1.2.0", "ab"),
   GateContext("UK", 25, FALSE, "1.10", "aba"),
   GateContext("US", 16, FALSE, "2.0", "b"),
   ("user_id" :> JStr("u1")) @@ ("age" :> JNum(25)) @@ ("premium" :> JBool(FALSE))}

GateRequests == {ExperimentRequest(<<"A">>, ctx, <<>>) : ctx \in GateContexts}

InitGate ==
  /\ catalog = from_experiments(<<GateExp(RuleExample)>>).catalog
  /\ layers = load_all_layers_new(Dir(<<LG>>)).v
  /\ service_index = rebuild_service_index(load_all_layers_new(Dir(<<LG>>)).v,
                       from_experiments(<<GateExp(RuleExample)>>).catalog, <<"L1">>)
  /\ history = EmptyMap
  /\ field_types = GateFieldTypes
  /\ last = Last("main", TRUE, 0, "")
  /\ response = NoResponse
  /\ wpc = "idle" /\ wjob = IdleJob
  /\ rpc = "idle" /\ rjob = IdleJob

NextGate ==
  \/ ExperimentUpdateWith(GateExperiments)
  \/ UpdateFieldTypesWith(GateFieldTypeMaps)
  \/ ExperimentHandlerWith(GateRequests)

SpecGate == InitGate /\ [][NextGate]_vars

(***************************************************************************)
(* SpecValid: SpecGate's layer and requests with rules that use each       *)
(* operator on typed fields, with one value and with several.              *)
(***************************************************************************)
ArityRules ==
  {NodeField("age", op, <<JNum(18), JNum(25)>>) : op \in {"Eq", "Gte", "In", "NotIn"}}
  \cup {NodeField("age", op, <<JNum(18)>>) : op \in {"Eq", "Neq", "Gt", "Lte", "Like"}}
  \cup {NodeField("name", op, <<JStr("a*")>>) : op \in {"Like", "NotLike", "Eq"}}
  \cup {NodeField("premium", "NotLike", <<JBool(TRUE)>>),
        NodeAnd(<<NodeField("country", "In", <<JStr("US"), JStr("CA")>>),
                  NodeField("name", "Like", <<JStr("a*"), JStr("*a")>>)>>)}

ValidRules == NestedRules \cup ArityRules

ValidExperiments == {GateExp(rule) : rule \in ValidRules}

NextValid ==
  \/ ExperimentUpdateWith(ValidExperiments)
  \/ UpdateFieldTypesWith(GateFieldTypeMaps)
  \/ ExperimentHandlerWith(GateRequests)

SpecValid == InitGate /\ [][NextValid]_vars

(***************************************************************************)
(* SpecMerge: the accumulator final_params of merge_layers_for_service,    *)
(* empty at first, receives the params of up to MaxMerges variants in      *)
(* priority order.                                                         *)
(***************************************************************************)
MaxMerges == 3

ConfigValues ==
  {JNum(1), JArr(2),
   JObj(("timeout" :> JNum(100)) @@ ("hi" :> JStr("v1"))),
   JObj(("timeout" :> JNum(200)) @@ ("lo" :> JStr("v2"))),
   JObj(("timeout" :> JObj(("hi" :> JNum(1)))))}

MergeParams ==
  {JObj(EmptyMap), JObj(("b" :> JNum(2)))}
  \cup {JObj(("config" :> v)) : v \in ConfigValues}
  \cup {JObj(("config" :> v) @@ ("b" :> JNum(3))) : v \in ConfigValues}

MergeJob(sources, before, acc, ok) ==
  [kind |-> "merge", sources |-> sources, before |-> before, acc |-> acc, ok |-> ok]

InitMerge ==
  /\ catalog = EmptyCatalog
  /\ layers = NoLayers
  /\ service_index = EmptyMap
  /\ history = EmptyMap
  /\ field_types = EmptyMap
  /\ last = Last("main", TRUE, 0, "")
  /\ response = NoResponse
  /\ wpc = "idle" /\ wjob = MergeJob(<<>>, EmptyMap, EmptyMap, TRUE)
  /\ rpc = "idle" /\ rjob = IdleJob

\* merge.rs 142: one call of merge_params_prioritized(&mut final_params, params).
MergeVariantParams ==
  \E params \in MergeParams :
    LET m == merge_params_prioritized(wjob.acc, params) IN
    /\ Len(wjob.sources) < MaxMerges
    /\ wjob' = MergeJob(Append(wjob.sources, params), wjob.acc, m.map, m.ok)
    /\ UNCHANGED <<catalog, lmVars, last, response, wpc, rpc, rjob>>

NextMerge == MergeVariantParams

SpecMerge == InitMerge /\ [][NextMerge]_vars

(***************************************************************************)
(* SpecVid: the layers directory holds one file at a time, with one or two *)
(* ranges between grid points in any order; buckets at and around the      *)
(* grid points are looked up in the loaded layer.                          *)
(***************************************************************************)
VidGrid == {0, 5000, 7500, 10000, 12500}

VidRanges(vid) == {BucketRange(a, b, vid) : a \in VidGrid, b \in VidGrid}

VidPairRanges(vid) ==
  {BucketRange(0, 5000, vid), BucketRange(5000, 7500, vid), BucketRange(7500, 10000, vid)}

VidCfgs ==
  {LayerCfg("L1", "v1", 1, <<>>, TRUE)}
  \cup {LayerCfg("L1", "v1", 1, <<r>>, TRUE) : r \in VidRanges(1)}
  \cup {LayerCfg("L1", "v1", 1, <<r1, r2>>, TRUE) :
          r1 \in VidPairRanges(1), r2 \in VidPairRanges(2)}

VidReloads == {[layers |-> <<cfg>>, experiments |-> InitialExperiments] : cfg \in VidCfgs}

ProbeBuckets == {0, 1, 4999, 5000, 5001, 7499, 7500, 9999, 10000, 10001, 12499}

ProbeJob(ranges, bucket, result) ==
  [kind |-> "get_vid", ranges |-> ranges, bucket |-> bucket, result |-> result]

\* merge.rs 101-105: layer.get_vid(bucket).
ProbeBucket ==
  \E layer_id \in DOMAIN layers, bucket \in ProbeBuckets :
    /\ rjob' = ProbeJob(layers[layer_id].ranges, bucket, get_vid(layers[layer_id], bucket))
    /\ UNCHANGED <<catalog, lmVars, last, response, wpc, wjob, rpc>>

NextVid == FullReloadWith(VidReloads) \/ ProbeBucket

SpecVid == Init /\ [][NextVid]_vars

(***************************************************************************)
(* SpecKey: two layers of service A that hash on different context keys;   *)
(* requests carry each key as a string, a number, a boolean, an array, or  *)
(* not at all.                                                             *)
(***************************************************************************)
K1 == Layer("L1", "v1", 3, "user_id", None, <<BucketRange(0, 10000, 1)>>, TRUE)

K1d == Layer("L1", "v1", 3, "device_id", None, <<BucketRange(0, 10000, 1)>>, TRUE)

K2 == Layer("L2", "v1", 2, "device_id", None, <<BucketRange(0, 10000, 2)>>, TRUE)

\* L2 sending every request to vid 4, whose params is a number.
K2n == Layer("L2", "v1", 2, "device_id", None, <<BucketRange(0, 10000, 4)>>, TRUE)

KeyReloads ==
  {[layers |-> files, experiments |-> InitialExperiments] :
     files \in {<<K1, K2>>, <<K1, K2n>>, <<K1d, K2>>}}

KeyValues == {JStr("u1"), JNum(7), JBool(TRUE), JArr(1)}

KeyContexts ==
  {EmptyMap}
  \cup {("user_id" :> u) : u \in KeyValues}
  \cup {("device_id" :> d) : d \in KeyValues}
  \cup {("user_id" :> u) @@ ("device_id" :> d) : u \in KeyValues, d \in KeyValues}

KeyRequests ==
  {ExperimentRequest(<<"A">>, ctx, ls) : ctx \in KeyContexts, ls \in {<<>>, <<"L2", "L1">>}}

InitKey ==
  /\ catalog = from_experiments(InitialExperiments).catalog
  /\ layers = load_all_layers_new(Dir(<<K1, K2>>)).v
  /\ \E order \in iteration_orders({"L1", "L2"}) :
       service_index = rebuild_service_index(load_all_layers_new(Dir(<<K1, K2>>)).v,
                         from_experiments(InitialExperiments).catalog, order)
  /\ history = EmptyMap
  /\ field_types = DefaultFieldTypes
  /\ last = Last("main", TRUE, 0, "")
  /\ response = NoResponse
  /\ wpc = "idle" /\ wjob = IdleJob
  /\ rpc = "idle" /\ rjob = IdleJob

NextKey == FullReloadWith(KeyReloads) \/ ExperimentHandlerWith(KeyRequests)

SpecKey == InitKey /\ [][NextKey]_vars

(***************************************************************************)
(* Salt and bucket of a request key (merge.rs 101-102): get_salt of a      *)
(* layer, then hash_to_bucket of the key under that salt.  wjob keeps the  *)
(* layers whose salt was taken, rjob the last hashing.                     *)
(***************************************************************************)
MaxSalts == 2

SaltLayers ==
  { Layer(id, version, 1, "user_id", salt, <<BucketRange(0, 10000, 1)>>, TRUE) :
      id \in {"L1", "L2"}, version \in {"v1", "v2"},
      salt \in {None, Some("s1"), Some("")} }

HashKeys == {"", "a", "ab", "u1", "u2", "US"}

SaltJob(salted, salts) == [kind |-> "salt", layers |-> salted, salts |-> salts]

HashJob(key, salt, bucket) == [kind |-> "hash", key |-> key, salt |-> salt, bucket |-> bucket]

InitHash ==
  /\ catalog = EmptyCatalog
  /\ layers = NoLayers
  /\ service_index = EmptyMap
  /\ history = EmptyMap
  /\ field_types = EmptyMap
  /\ last = Last("main", TRUE, 0, "")
  /\ response = NoResponse
  /\ wpc = "idle" /\ wjob = SaltJob(<<>>, <<>>)
  /\ rpc = "idle" /\ rjob = IdleJob

\* merge.rs 101: let salt = layer.get_salt().
GetSalt ==
  \E layer \in SaltLayers :
    /\ Len(wjob.layers) < MaxSalts
    /\ wjob' = SaltJob(Append(wjob.layers, layer), Append(wjob.salts, get_salt(layer)))
    /\ UNCHANGED <<catalog, lmVars, last, response, wpc, rpc, rjob>>

\* merge.rs 102: let bucket = hash_to_bucket(&hash_key_value, &salt).
HashToBucket ==
  \E key \in HashKeys, i \in 1..Len(wjob.salts) :
    /\ rjob' = HashJob(key, wjob.salts[i], hash_to_bucket(as_bytes(key), wjob.salts[i]))
    /\ UNCHANGED <<catalog, lmVars, last, response, wpc, wjob, rpc>>

NextHash == GetSalt \/ HashToBucket

SpecHash == InitHash /\ [][NextHash]_vars

(***************************************************************************)
(* Loading layer configs: load_all_layers and load_layer over configs in   *)
(* the ranges form and in the two legacy forms (ranges naming a group,     *)
(* boundary buckets), valid and invalid, next to updates from the xDS      *)
(* client.                                                                 *)
(***************************************************************************)
RangeGroup(start, end, group) == [start |-> start, end |-> end, group |-> group]

LegacyCfg(layer_id, version, priority, ranges, buckets, groups) ==
  [layer_id |-> layer_id, version |-> version, priority |-> priority,
   hash_key |-> "user_id", salt |-> None, ranges |-> ranges, enabled |-> TRUE,
   buckets |-> buckets, groups |-> groups]

LoadGroups == ("g1" :> VariantDef(2, ParamsLow)) @@ ("g3" :> VariantDef(3, ParamsOther))

\* A range ending above BUCKET_SIZE.
L2over == LayerCfg("L2", "v2", 2, <<BucketRange(0, 3000, 2), BucketRange(3000, 10001, 4)>>, TRUE)

\* An empty range.
L2empty == LayerCfg("L2", "v2", 2, <<BucketRange(0, 3000, 2), BucketRange(5000, 5000, 4)>>, TRUE)

\* Ranges naming a group and a numeric group, unsorted.
L2group ==
  LegacyCfg("L2", "v3", 2, <<RangeGroup(3000, 10000, "4"), RangeGroup(0, 3000, "g1")>>,
            EmptyMap, LoadGroups)

\* A range naming a group the config does not define.
L2nogroup ==
  LegacyCfg("L2", "v3", 2, <<RangeGroup(0, 3000, "g1"), RangeGroup(3000, 10000, "g9")>>,
            EmptyMap, LoadGroups)

\* Boundary buckets.
L1buckets == LegacyCfg("L1", "v3", 3, <<>>, (0 :> "g1") @@ (3000 :> "g3"), LoadGroups)

\* A boundary bucket naming a group the config does not define.
L1nobucket == LegacyCfg("L1", "v3", 3, <<>>, (0 :> "g1") @@ (3000 :> "4"), LoadGroups)

LoadCfgs == {L1a, L1b, L2a, L2bad, L2over, L2empty, L2group, L2nogroup, L1buckets, L1nobucket}

LoadReloads ==
  {[layers |-> <<L1a, L2a, L2bad>>, experiments |-> InitialExperiments],
   [layers |-> <<L2nogroup, L1buckets, L2group>>, experiments |-> InitialExperiments],
   [layers |-> <<L2over, L1nobucket, L1b>>, experiments |-> InitialExperiments],
   [layers |-> <<L2empty>>, experiments |-> InitialExperiments]}

NextLoad ==
  \/ FullReloadWith(LoadReloads)
  \/ LayerUpdateWith(LayerIds, LoadCfgs)
  \/ XdsLayerUpdate

SpecLoad == Init /\ [][NextLoad]_vars

(***************************************************************************)
(* The legacy boundary form: convert_buckets_to_ranges under every         *)
(* iteration order of the buckets map, the layer try_from_config builds    *)
(* from it, and get_vid on that layer.                                     *)
(***************************************************************************)
MaxBoundaries == 3

BoundaryStarts == {0, 3000, 7000, 10000}

BoundaryGroups == {"g1", "g3", "g9"}

BucketMaps ==
  UNION {[starts -> BoundaryGroups] :
           starts \in {S \in SUBSET BoundaryStarts : S # {} /\ Cardinality(S) <= MaxBoundaries}}

LegacyProbes == {0, 1, 2999, 3000, 6999, 7000, 9999}

BucketsJob(cfg, order, converted, built) ==
  [kind |-> "buckets", cfg |-> cfg, order |-> order, converted |-> converted, built |-> built]

LegacyProbe(bucket, result) == [kind |-> "probe", bucket |-> bucket, result |-> result]

InitBuckets ==
  /\ catalog = EmptyCatalog
  /\ layers = NoLayers
  /\ service_index = EmptyMap
  /\ history = EmptyMap
  /\ field_types = EmptyMap
  /\ last = Last("main", TRUE, 0, "")
  /\ response = NoResponse
  /\ wpc = "idle" /\ wjob = IdleJob
  /\ rpc = "idle" /\ rjob = IdleJob

\* layer.rs 108-137: a config in the boundary form is converted (under the
\* iteration order the map happens to have) and the layer is built.
NormalizeBuckets ==
  \E buckets \in BucketMaps :
    \E order \in iteration_orders(DOMAIN buckets) :
      LET cfg == LegacyCfg("L1", "v1", 1, <<>>, buckets, LoadGroups) IN
      /\ wjob = IdleJob
      /\ wjob' = BucketsJob(cfg, order,
                            convert_buckets_to_ranges(buckets, LoadGroups, order),
                            try_from_config(cfg))
      /\ rjob' = IdleJob
      /\ UNCHANGED <<catalog, lmVars, last, response, wpc, rpc>>

\* merge.rs 103: layer.get_vid(bucket) on the layer just built.
ProbeLegacy ==
  \E bucket \in LegacyProbes :
    /\ wjob.kind = "buckets" /\ wjob.built.ok
    /\ rjob' = LegacyProbe(bucket, get_vid(wjob.built.layer, bucket))
    /\ UNCHANGED <<catalog, lmVars, last, response, wpc, wjob, rpc>>

NextBuckets == NormalizeBuckets \/ ProbeLegacy

SpecBuckets == InitBuckets /\ [][NextBuckets]_vars

(***************************************************************************)
(* SpecWriters: the config applier (the task spawned at main.rs 100-108)   *)
(* updates and removes layers in its three steps, load, index store and    *)
(* layers store, while the server task (main.rs 111-115) serves            *)
(* POST /rollback/:layer_id at any moment.  No request is in flight.       *)
(***************************************************************************)
L2b == LayerCfg("L2", "v2", 2, <<BucketRange(0, 10000, 2)>>, TRUE)

WriterChanges ==
  {Change("LayerUpdate", "L1", <<L1b>>, <<>>),
   Change("LayerUpdate", "L1", <<L1a>>, <<>>),
   Change("LayerUpdate", "L2", <<L2b>>, <<>>),
   Change("LayerUpdate", "L2", <<L2a>>, <<>>),
   Change("LayerDelete", "L1", <<>>, <<>>)}

NextWriters ==
  \/ WriterBeginWith(WriterChanges)
  \/ WriterIndex
  \/ WriterLayers
  \/ AdminRollbackStep

SpecWriters == Init /\ [][NextWriters]_vars

(***************************************************************************)
(* Catalog claims.                                                         *)
(***************************************************************************)
\* The vids of the definitions held in a catalog, with the eids holding them.
HoldersOf(cat, vid) ==
  {e \in DOMAIN cat.experiments :
     \E i \in 1..Len(cat.experiments[e].variants) :
        cat.experiments[e].variants[i].vid = vid}

\* C4: a rejected update_experiment leaves the experiments map and the
\* vid-to-eid reverse index exactly as they were before the call.
C4_RejectedUpdateIsNoOp ==
  [][(last'.op = "update_experiment" /\ ~last'.ok) => catalog' = catalog]_vars

\* C5: in every reachable catalog no vid is a variant of two different
\* experiments, no vid occurs twice inside one experiment, and every stored
\* definition is keyed by its own eid.
C5_CatalogUniqueness ==
  /\ \A v \in Vids : Cardinality(HoldersOf(catalog, v)) <= 1
  /\ \A e \in DOMAIN catalog.experiments :
       LET vs == catalog.experiments[e].variants IN
       /\ catalog.experiments[e].eid = e
       /\ \A i, j \in 1..Len(vs) : vs[i].vid = vs[j].vid => i = j

(***************************************************************************)
(* Server claims, over the last response and the configuration it was      *)
(* computed against (a config step resets response to NoResponse).         *)
(***************************************************************************)
Answered == response.status = "ok"

\* The positions of one service result.
Positions(r) == 1..Len(r.vids)

\* The layer and the variant behind position i of a service result.
ContribLayer(r, i) == layers[r.matched_layers[i]]

ContribParams(r, i) == get_variant(catalog, r.vids[i]).v.params

\* C2: merge_batch answers every request successfully, with one result for
\* each requested service; a variant whose params is not a JSON object only
\* makes its own layer be skipped and never fails the request.
C2_MergeBatchAlwaysSucceeds ==
  response.status # "none" =>
    /\ response.status = "ok"
    /\ DOMAIN response.results =
         {response.request.services[i] : i \in 1..Len(response.request.services)}

\* C3: priority dominance.  In every service result, a non-object key that
\* several contributing layers define holds the value of the contributing
\* layer of the highest priority; a lower-priority layer's value never wins.
C3_PriorityDominance ==
  Answered =>
    \A s \in DOMAIN response.results :
      LET r == response.results[s] IN
      \A i, j \in Positions(r) :
        \A key \in (DOMAIN ContribParams(r, i).m) \cap (DOMAIN ContribParams(r, j).m) :
          (/\ ContribLayer(r, i).priority > ContribLayer(r, j).priority
           /\ ContribParams(r, i).m[key].t # "obj"
           /\ ContribParams(r, j).m[key].t # "obj"
           /\ \A h \in Positions(r) :
                key \in DOMAIN ContribParams(r, h).m
                  => ContribLayer(r, h).priority <= ContribLayer(r, i).priority)
          => r.parameters[key] = ContribParams(r, i).m[key]

\* C8: a disabled layer contributes to no response, is not listed in the
\* service index, is not returned by get_layers_for_service, and stays
\* excluded when the request's explicit layers list names it.
C8_DisabledLayerNeverContributes ==
  /\ \A s \in Services :
       LET ls == get_layers_for_service(service_index, layers, s) IN
       \A i \in 1..Len(ls) : ls[i].enabled
  /\ Answered =>
       \A s \in DOMAIN response.results :
         \A i \in Positions(response.results[s]) :
           ContribLayer(response.results[s], i).enabled

\* C9: in every service result each layer_id occurs at most once in
\* matched_layers (so a layer contributes at most one vid), also when the
\* explicit layers list of the request repeats a layer_id.
C9_EachLayerAtMostOnce ==
  Answered =>
    \A s \in DOMAIN response.results :
      LET r == response.results[s] IN
      /\ Len(r.matched_layers) = Len(r.vids)
      /\ \A i, j \in Positions(r) : r.matched_layers[i] = r.matched_layers[j] => i = j

\* The variants that the candidate layers of service s assign to the
\* request of the last response, as resolved by the catalog.
AssignedVariants(s) ==
  LET cands == candidate_layers(s, response.request, service_index, layers) IN
  {get_variant(catalog, matched_vid(cands[i], response.request.context).v) :
     i \in {j \in 1..Len(cands) : matched_vid(cands[j], response.request.context).some}}

\* C10: service isolation.  Every vid of results[s] is a variant of an
\* experiment of service s, every merged top-level parameter comes from a
\* contributing variant of service s, and a service that no assigned
\* variant targets gets empty parameters, vids and matched_layers.
C10_ServiceIsolation ==
  Answered =>
    \A s \in DOMAIN response.results :
      LET r == response.results[s] IN
      /\ \A i \in Positions(r) :
           \E e \in HoldersOf(catalog, r.vids[i]) : catalog.experiments[e].service = s
      /\ \A key \in DOMAIN r.parameters :
           \E i \in Positions(r) :
             /\ key \in DOMAIN ContribParams(r, i).m
             /\ \E e \in HoldersOf(catalog, r.vids[i]) : catalog.experiments[e].service = s
             /\ (r.parameters[key].t # "obj" => r.parameters[key] = ContribParams(r, i).m[key])
      /\ (\A v \in AssignedVariants(s) : ~(v.some /\ v.v.service = s))
           => (r.parameters = EmptyMap /\ r.vids = <<>> /\ r.matched_layers = <<>>)

\* A response for service B that holds a variant, computed while the same
\* layer assigns other requests to a variant of service A.
C10_Witness ==
  /\ Answered
  /\ "A" \in DOMAIN response.results /\ "B" \in DOMAIN response.results
  /\ response.results["B"].vids # <<>>
  /\ response.results["A"].vids # <<>>
  /\ \E v \in AssignedVariants("A") : v.some /\ v.v.service = "B"

\* C6: a successful rollback reinstates the most recently pushed version of
\* the layer and rebuilds the service index for the resulting layer map.
C6_RollbackRebuildsIndex ==
  [][(last'.op = "rollback_layer" /\ last'.ok) =>
       /\ \E id \in DOMAIN history :
            /\ history[id] # <<>>
            /\ layers' = MapInsert(layers, id, history[id][Len(history[id])])
       /\ \E order \in iteration_orders(DOMAIN layers') :
            service_index' = rebuild_service_index(layers', catalog', order)]_vars

\* C7: a completed load_all leaves exactly the layers just loaded in the
\* layer map and an empty history for every layer_id, so that every
\* rollback fails until the layer is updated again.
C7_LoadAllClearsHistory ==
  [][(last'.op = "FullReload" /\ last'.ok) =>
       /\ \E change \in FullReloads :
            layers' = load_all_layers_new(Dir(change.layers)).v
       /\ \A id \in DOMAIN history' : history'[id] = <<>>
       /\ \A id \in LayerIds : ~rollback_layer(layers', history', id).ok]_vars

(***************************************************************************)
(* Concurrency claim, over SpecConc.                                       *)
(***************************************************************************)
\* The configuration that the change in progress leaves once it completes;
\* the current one when no change has stored anything yet.
AfterConfigs ==
  CASE wpc = "index" ->
         {Config(catalog, wjob.new_layers,
                 rebuild_service_index(wjob.new_layers, catalog, order)) :
            order \in iteration_orders(DOMAIN wjob.new_layers)}
    [] wpc = "layers" -> {Config(catalog, wjob.new_layers, service_index)}
    [] OTHER -> {Current}

\* C1: a request that overlaps one config change is answered with the
\* response of the configuration before the change or with the response of
\* the configuration after it, never with a mix of index, layer map and
\* catalog of different versions.
C1_SnapshotAtomicity ==
  [][(rpc = "respond" /\ rpc' = "idle") =>
       response' \in {BatchResponse(rjob.request, c) : c \in {rjob.before} \cup AfterConfigs}]_vars

(***************************************************************************)
(* Layer manager claims, over SpecLayers.                                  *)
(***************************************************************************)
\* C11: determinism.  The response to a request depends only on the layer
\* map, the catalog and the field types: it is the response computed from
\* the index built under any iteration order of the layer map.
C11_Determinism ==
  response.status # "none" =>
    \A order \in iteration_orders(DOMAIN layers) :
      /\ service_index = rebuild_service_index(layers, catalog, order)
      /\ response = BatchResponse(response.request,
                      Config(catalog, layers, rebuild_service_index(layers, catalog, order)))

\* A response in which two layers of equal priority both contributed to one
\* service.
C11_Witness ==
  /\ Answered
  /\ \E s \in DOMAIN response.results :
       LET r == response.results[s] IN
       \E i, j \in Positions(r) :
         /\ i # j
         /\ ContribLayer(r, i).priority = ContribLayer(r, j).priority

\* Sorted by start, start < end <= BUCKET_SIZE, pairwise non-overlapping.
RangeIntegrity(ranges) ==
  /\ \A i \in 1..Len(ranges) : ranges[i].start < ranges[i].end /\ ranges[i].end <= BUCKET_SIZE
  /\ \A i \in 1..(Len(ranges) - 1) :
       ranges[i].start <= ranges[i + 1].start /\ ranges[i].end <= ranges[i + 1].start

\* C12: every layer held by the layer manager, as a current version or in
\* the history, has ranges that are sorted by start, satisfy
\* start < end <= BUCKET_SIZE and do not overlap, whatever path delivered it.
C12_RangeIntegrity ==
  /\ \A id \in DOMAIN layers : RangeIntegrity(layers[id].ranges)
  /\ \A id \in DOMAIN history :
       \A i \in 1..Len(history[id]) : RangeIntegrity(history[id][i].ranges)

\* The layers that should serve service s: enabled, with a range whose vid
\* is a variant of an experiment of service s.
ServingLayers(s) ==
  {id \in DOMAIN layers :
     /\ layers[id].enabled
     /\ \E i \in 1..Len(layers[id].ranges) :
          \E e \in HoldersOf(catalog, layers[id].ranges[i].vid) :
            catalog.experiments[e].service = s}

\* C13: after load_all, update or remove, get_layers_for_service(s) returns
\* exactly the enabled layers with a range whose vid resolves to an
\* experiment of service s, each once, by priority descending and then
\* layer_id ascending; a range with an unknown vid neither adds a service
\* nor removes the layer from the services of its other ranges.
C13_IndexCorrectness ==
  \A s \in Services :
    LET ls == get_layers_for_service(service_index, layers, s) IN
    /\ {ls[i].layer_id : i \in 1..Len(ls)} = ServingLayers(s)
    /\ Len(ls) = Cardinality(ServingLayers(s))
    /\ \A i \in 1..Len(ls) : ls[i] = layers[ls[i].layer_id]
    /\ \A i \in 1..(Len(ls) - 1) :
         \/ ls[i].priority > ls[i + 1].priority
         \/ /\ ls[i].priority = ls[i + 1].priority
            /\ str_cmp(ls[i].layer_id, ls[i + 1].layer_id) = "Less"

\* The current L1 has a range with an unknown vid and still serves service
\* A, next to a layer of the same priority.
C13_Witness ==
  /\ last.op = "LayerUpdate" /\ last.ok
  /\ "L1" \in DOMAIN layers /\ layers["L1"] = try_from_config(L1t).layer
  /\ "A" \in DOMAIN service_index
  /\ service_index["A"] = <<"L1", "L2">>

(***************************************************************************)
(* Version history (SpecHistory).                                          *)
(***************************************************************************)
InstalledVersion(i) == try_from_config(wjob.versions[i]).layer

\* C14: after the versions v0..vk of a layer were installed in that order,
\* the j-th rollback (1 <= j <= k) succeeds and reinstates v(k-j), so k
\* rollbacks reinstate v(k-1), ..., v0 in that order; the (k+1)-th rollback
\* fails and leaves v0 current.
C14_LifoHistory ==
  (wjob.kind = "script" /\ wjob.rollbacks >= 1) =>
    IF wjob.rollbacks <= wjob.installed - 1
    THEN /\ last.op = "rollback_layer" /\ last.ok
         /\ layers["L1"] = InstalledVersion(wjob.installed - wjob.rollbacks)
    ELSE /\ last.op = "rollback_layer" /\ ~last.ok
         /\ layers["L1"] = InstalledVersion(1)

C14_Witness ==
  /\ wjob.kind = "script"
  /\ wjob.installed = 3 /\ wjob.rollbacks = 2
  /\ InstalledVersion(1) # InstalledVersion(2)
  /\ InstalledVersion(2) # InstalledVersion(3)
  /\ InstalledVersion(1) # InstalledVersion(3)
  /\ last.ok
  /\ layers["L1"] = InstalledVersion(1)

NoStoredVersion(layer_id) ==
  IF layer_id \in DOMAIN history THEN history[layer_id] = <<>> ELSE TRUE

\* C15: a rollback of a layer whose history has no entry or an empty stack
\* fails and changes neither the layers, nor the service index, nor the
\* history.
C15_RollbackOnEmptyHistory ==
  [][(wjob.kind = "script" /\ wjob'.rollbacks = wjob.rollbacks + 1
      /\ NoStoredVersion("L1"))
     => (/\ last'.op = "rollback_layer" /\ ~last'.ok
         /\ layers' = layers
         /\ service_index' = service_index
         /\ history' = history)]_vars

C15_Witness ==
  /\ wjob.kind = "script"
  /\ wjob.installed >= 2
  /\ wjob.rollbacks = wjob.installed + 1
  /\ last.op = "rollback_layer" /\ ~last.ok
  /\ "L1" \in DOMAIN history /\ history["L1"] = <<>>
  /\ layers["L1"] = InstalledVersion(1)

(***************************************************************************)
(* Rule gating (Spec).                                                     *)
(***************************************************************************)
\* The variant that candidate layer l assigns to the request, when it is a
\* variant of service s whose experiment carries a rule; None otherwise.
GatedVariant(l, s, context) ==
  LET vid == matched_vid(l, context) IN
  IF ~vid.some THEN None
  ELSE LET variant == get_variant(catalog, vid.v) IN
       IF ~variant.some THEN None
       ELSE IF variant.v.service = s /\ variant.v.rule.some
            THEN Some([vid |-> vid.v, rule |-> variant.v.rule.v])
            ELSE None

Contributes(s, vid, layer_id) ==
  /\ Answered
  /\ s \in DOMAIN response.results
  /\ \E j \in Positions(response.results[s]) :
       /\ response.results[s].vids[j] = vid
       /\ response.results[s].matched_layers[j] = layer_id

\* C16: for every request, a matched variant whose experiment carries a rule
\* contributes to its service's result (its vid and layer_id are recorded)
\* if and only if the rule evaluates to true on the request context; when
\* the rule is false or its evaluation fails, the request is still answered
\* without an error.
C16_RuleGating ==
  response.status # "none" =>
    \A n \in 1..Len(response.request.services) :
      LET s == response.request.services[n]
          cands == candidate_layers(s, response.request, service_index, layers)
      IN \A i \in 1..Len(cands) :
           LET g == GatedVariant(cands[i], s, response.request.context) IN
           g.some =>
             LET ev == evaluate(g.v.rule, response.request.context, field_types)
                 rule_true == IF ev.ok THEN ev.v ELSE FALSE
             IN /\ rule_true <=> Contributes(s, g.v.vid, cands[i].layer_id)
                /\ ~rule_true => Answered

(***************************************************************************)
(* Rules (SpecGate).                                                       *)
(***************************************************************************)
\* A request was handled while experiment 1 carries a rule.
GateHandled ==
  /\ response.status # "none"
  /\ 1 \in DOMAIN catalog.experiments
  /\ catalog.experiments[1].rule.some

GateRule == catalog.experiments[1].rule.v

GateCtx == response.request.context

\* The gated variant, vid 1, is assigned by the response.
GateAssigned ==
  /\ Answered
  /\ "A" \in DOMAIN response.results
  /\ \E j \in Positions(response.results["A"]) : response.results["A"].vids[j] = 1

\* C17: a variant gated by a rule that Node::validate rejects under the
\* field types in force (unknown field, value of the wrong type, empty
\* values, boolean token as the op of a Field node) is never assigned,
\* whatever the context.
C17_DefectiveRuleFails ==
  (GateHandled /\ ~validate(GateRule, field_types)) => ~GateAssigned

RECURSIVE LeavesOk(_, _, _)
LeavesOk(node, ctx, ftypes) ==
  IF node.type = "field" THEN evaluate(node, ctx, ftypes).ok
  ELSE \A i \in 1..Len(node.children) : LeavesOk(node.children[i], ctx, ftypes)

\* The boolean function of a rule tree over the values of its leaves.
RECURSIVE BoolOf(_, _, _)
BoolOf(node, ctx, ftypes) ==
  CASE node.type = "field" -> evaluate(node, ctx, ftypes).v
    [] node.type = "and" ->
         \A i \in 1..Len(node.children) : BoolOf(node.children[i], ctx, ftypes)
    [] node.type = "or" ->
         \E i \in 1..Len(node.children) : BoolOf(node.children[i], ctx, ftypes)
    [] node.type = "not" -> ~BoolOf(node.children[1], ctx, ftypes)

\* C18: when every leaf of the gating rule evaluates without error on the
\* request context, the variant is assigned exactly when the boolean
\* function of the tree (And: all children, Or: some child, Not: negation,
\* at any depth) is true of the leaves' values.
C18_BooleanFunctionOfTree ==
  (GateHandled /\ LeavesOk(GateRule, GateCtx, field_types))
    => (GateAssigned <=> BoolOf(GateRule, GateCtx, field_types))

\* {CA, 16, true} under the example rule: the first child of Or is false and
\* the second decides.
C18_Witness ==
  /\ GateHandled
  /\ GateRule = RuleExample
  /\ field_types = GateFieldTypes
  /\ GateCtx = GateContext("CA", 16, TRUE, "1.2.0", "ab")
  /\ GateAssigned

\* Component-wise numeric order with an absent component read as 0.
RECURSIVE PaddedCmp(_, _)
PaddedCmp(a, b) ==
  IF a = <<>> /\ b = <<>> THEN "Equal"
  ELSE LET x == IF a = <<>> THEN 0 ELSE Head(a)
           y == IF b = <<>> THEN 0 ELSE Head(b)
       IN IF x < y THEN "Less"
          ELSE IF x > y THEN "Greater"
          ELSE PaddedCmp(IF a = <<>> THEN a ELSE Tail(a), IF b = <<>> THEN b ELSE Tail(b))

SemVerOrder(l, r) ==
  PaddedCmp(semver_parts(split_bytes(as_bytes(l), 46, <<>>)),
            semver_parts(split_bytes(as_bytes(r), 46, <<>>)))

OpHolds(op, ord) ==
  CASE op = "Eq" -> ord = "Equal"
    [] op = "Neq" -> ord # "Equal"
    [] op = "Gt" -> ord = "Greater"
    [] op = "Gte" -> ord \in {"Greater", "Equal"}
    [] op = "Lt" -> ord = "Less"
    [] op = "Lte" -> ord \in {"Less", "Equal"}

\* C19: a comparison on a SemVer field holds exactly when it holds of the
\* component-wise numeric order in which absent trailing components count
\* as 0, so 1.2 and 1.2.0 are Equal.
C19_SemVerTrailingZeros ==
  (/\ GateHandled
   /\ GateRule.type = "field"
   /\ GateRule.op \in {"Eq", "Neq", "Gt", "Gte", "Lt", "Lte"}
   /\ GateRule.field \in DOMAIN field_types
   /\ field_types[GateRule.field] = "SemVer"
   /\ GateRule.field \in DOMAIN GateCtx)
  => (GateAssigned <=>
        OpHolds(GateRule.op, SemVerOrder(GateCtx[GateRule.field].s, GateRule.values[1].s)))

\* text = prefix \o middle \o suffix for some middle, where the pattern is
\* prefix*suffix; a pattern without '*' matches the identical text only.
LikeMatches(text, pattern) ==
  IF \A k \in 1..Len(pattern) : pattern[k] # 42
  THEN text = pattern
  ELSE \E k \in 1..Len(pattern) :
         /\ pattern[k] = 42
         /\ LET prefix == SubSeq(pattern, 1, k - 1)
                suffix == SubSeq(pattern, k + 1, Len(pattern))
            IN /\ Len(text) >= Len(prefix) + Len(suffix)
               /\ SubSeq(text, 1, Len(prefix)) = prefix
               /\ SubSeq(text, Len(text) - Len(suffix) + 1, Len(text)) = suffix

\* C20: a Like rule with at most one '*' in its pattern passes exactly
\* when the text is the pattern's prefix, then any substring, then the
\* pattern's suffix.
C20_LikeSingleStar ==
  (/\ GateHandled
   /\ GateRule.type = "field"
   /\ GateRule.op = "Like"
   /\ GateRule.field \in DOMAIN field_types
   /\ GateRule.field \in DOMAIN GateCtx)
  => (GateAssigned <=>
        LikeMatches(as_bytes(GateCtx[GateRule.field].s), as_bytes(GateRule.values[1].s)))

(***************************************************************************)
(* Deep merge (SpecMerge).                                                 *)
(***************************************************************************)
\* out is acc with src merged in, first writer wins: a key of src is
\* inserted when acc lacks it, merged recursively when both hold objects,
\* and otherwise acc's value stays; the other keys of acc keep their value.
RECURSIVE FirstWriterWins(_, _, _)
FirstWriterWins(acc, src, out) ==
  /\ DOMAIN out = (DOMAIN acc) \cup (DOMAIN src)
  /\ \A k \in DOMAIN out :
       IF k \notin DOMAIN src THEN out[k] = acc[k]
       ELSE IF k \notin DOMAIN acc THEN out[k] = src[k]
       ELSE IF acc[k].t = "obj" /\ src[k].t = "obj"
            THEN out[k].t = "obj" /\ FirstWriterWins(acc[k].m, src[k].m, out[k].m)
            ELSE out[k] = acc[k]

Merged == wjob.kind = "merge" /\ wjob.sources # <<>>

LastSource == wjob.sources[Len(wjob.sources)]

\* C21: merging an object source into the accumulator succeeds and is
\* first-writer-wins at every depth: absent keys are inserted, two objects
\* are merged recursively, anything else (scalar, array, type mismatch)
\* leaves the accumulator's value, and keys not in the source are kept.
C21_FirstWriterWins ==
  Merged => (wjob.ok /\ FirstWriterWins(wjob.before, LastSource.m, wjob.acc))

\* {config: {timeout: 100, hi: v1}} then {config: {timeout: 200, lo: v2}}.
C21_Witness ==
  /\ Merged
  /\ wjob.before = ("config" :> JObj(("timeout" :> JNum(100)) @@ ("hi" :> JStr("v1"))))
  /\ LastSource = JObj(("config" :> JObj(("timeout" :> JNum(200)) @@ ("lo" :> JStr("v2")))))
  /\ wjob.acc = ("config" :> JObj(("timeout" :> JNum(100)) @@ ("hi" :> JStr("v1"))
                                     @@ ("lo" :> JStr("v2"))))

\* merge(a, merge(b, c)) for the three sources merged so far.
RightGrouped ==
  merge_params_prioritized(wjob.sources[1].m,
    JObj(merge_params_prioritized(wjob.sources[2].m, wjob.sources[3]).map)).map

RECURSIVE SameShape(_, _)
SameShape(x, y) ==
  \A k \in (DOMAIN x) \cap (DOMAIN y) :
    IF x[k].t = "obj" /\ y[k].t = "obj" THEN SameShape(x[k].m, y[k].m)
    ELSE x[k].t # "obj" /\ y[k].t # "obj"

Covering(ranges, b) ==
  {i \in 1..Len(ranges) : ranges[i].start <= b /\ b < ranges[i].end}

\* C23: for a layer with sorted non-overlapping ranges and any bucket b,
\* get_vid(b) is Some(vid) of the one range with start <= b < end, and None
\* when no range covers b (a hole, an end bound, b >= BUCKET_SIZE): the
\* binary search agrees with the scan over all ranges.
C23_GetVidMatchesScan ==
  (rjob.kind = "get_vid" /\ RangeIntegrity(rjob.ranges)) =>
    LET hits == Covering(rjob.ranges, rjob.bucket) IN
    IF hits = {} THEN ~rjob.result.some
    ELSE /\ Cardinality(hits) = 1
         /\ rjob.result.some
         /\ \A i \in hits : rjob.result.v = rjob.ranges[i].vid

\* The end bound of a range followed by a hole, in a layer of two ranges
\* that the file listed in descending order.
C23_Witness ==
  /\ rjob.kind = "get_vid"
  /\ rjob.ranges = <<BucketRange(0, 5000, 2), BucketRange(7500, 10000, 1)>>
  /\ rjob.bucket = 5000
  /\ ~rjob.result.some

(***************************************************************************)
(* Hash key (SpecKey).                                                     *)
(***************************************************************************)
\* The context holds the layer's hash key as a string or a number.
HasHashKey(layer, context) ==
  IF layer.hash_key \in DOMAIN context
  THEN context[layer.hash_key].t \in {"str", "num"}
  ELSE FALSE

RECURSIVE WithHashKey(_, _)
WithHashKey(candidates, context) ==
  IF candidates = <<>> THEN <<>>
  ELSE (IF HasHashKey(Head(candidates), context) THEN <<Head(candidates)>> ELSE <<>>)
       \o WithHashKey(Tail(candidates), context)

\* C24: the layers whose hash key is missing from the context, or is
\* neither a string nor a number, are skipped without an error: the request
\* is answered as if its candidate layers were the other ones alone, which
\* are evaluated and contribute as they would without the skipped layers.
C24_MissingHashKeySkipped ==
  (response.status # "none" /\ response.request.services = <<"A">>) =>
    LET cands == candidate_layers("A", response.request, service_index, layers)
        r == merge_layers_loop("A", response.request,
                               WithHashKey(cands, response.request.context),
                               catalog, field_types, EmptyServiceResult)
    IN /\ (\A i \in 1..Len(cands) : ~HasHashKey(cands[i], response.request.context))
            => (Answered /\ response.results["A"].vids = <<>>)
       /\ Answered <=> r.ok
       /\ Answered => response.results["A"] = r

\* L1's key user_id is a boolean and L2, hashing on device_id, contributes.
C24_Witness ==
  /\ Answered
  /\ response.request.layers = <<>>
  /\ response.request.context = ("user_id" :> JBool(TRUE)) @@ ("device_id" :> JStr("u1"))
  /\ layers["L1"].hash_key = "user_id"
  /\ service_index["A"] = <<"L1", "L2">>
  /\ response.results["A"].matched_layers = <<"L2">>
  /\ response.results["A"].vids = <<2>>

(***************************************************************************)
(* Concurrent writers (SpecWriters).                                       *)
(***************************************************************************)
\* C25: the load-modify-publish of one layer-set writer is atomic with
\* respect to the other writer: when the applier publishes its layer map
\* for a change of one layer, every other layer is published as it was
\* just before, so a rollback of another layer that was published in the
\* meantime is not lost.
C25_WritersSerialized ==
  [][(wpc = "layers" /\ wpc' = "idle") =>
       \A id \in LayerIds \ {wjob.change.layer_id} :
         /\ (id \in DOMAIN layers' <=> id \in DOMAIN layers)
         /\ (id \in DOMAIN layers => layers'[id] = layers[id])]_vars

(***************************************************************************)
(* Failing events (Spec).                                                  *)
(***************************************************************************)
ConfigChangeOps ==
  {"FullReload", "LayerUpdate", "LayerDelete", "ExperimentUpdate", "ExperimentDelete"}

\* C26: a ConfigChange event whose application fails changes neither the
\* catalog, nor the layer map, nor the service index, nor the history, so
\* the later events are applied to the state the failing event found.
C26_FailedChangeHasNoEffect ==
  [][(last'.op \in ConfigChangeOps /\ ~last'.ok /\ response'.status = "none") =>
       /\ catalog' = catalog
       /\ layers' = layers
       /\ service_index' = service_index
       /\ history' = history]_vars

\* C27: hash_to_bucket returns a value for every key and salt, the hash of
\* the key followed by the salt reduced modulo BUCKET_SIZE: a number in
\* [0, BUCKET_SIZE), and BUCKET_SIZE is below 2^32 so the cast to u32 keeps it.
C27_BucketBelowBucketSize ==
  rjob.kind = "hash" =>
    /\ rjob.bucket \in 0..(BUCKET_SIZE - 1)
    /\ rjob.bucket = xxh3_64(as_bytes(rjob.key) \o rjob.salt) % BUCKET_SIZE
    /\ BUCKET_SIZE \div 65536 < 65536

C27_Witness ==
  /\ rjob.kind = "hash"
  /\ xxh3_64(as_bytes(rjob.key) \o rjob.salt) >= BUCKET_SIZE
  /\ rjob.bucket < BUCKET_SIZE

DefaultSalt(layer) == as_bytes(layer.layer_id) \o <<95>> \o as_bytes(layer.version)

\* C28: get_salt is the configured salt when one is set and otherwise
\* layer_id, "_" and version joined; two layers of the same layer_id without
\* a configured salt and with different versions have different salts.
C28_SaltOfLayer ==
  wjob.kind = "salt" =>
    /\ \A i \in 1..Len(wjob.layers) :
         wjob.salts[i] = IF wjob.layers[i].salt.some
                         THEN as_bytes(wjob.layers[i].salt.v)
                         ELSE DefaultSalt(wjob.layers[i])
    /\ \A i, j \in 1..Len(wjob.layers) :
         (/\ wjob.layers[i].layer_id = wjob.layers[j].layer_id
          /\ ~wjob.layers[i].salt.some /\ ~wjob.layers[j].salt.some
          /\ wjob.layers[i].version # wjob.layers[j].version)
         => wjob.salts[i] # wjob.salts[j]

C28_Witness ==
  /\ wjob.kind = "salt" /\ Len(wjob.layers) = 2
  /\ wjob.layers[1].layer_id = wjob.layers[2].layer_id
  /\ ~wjob.layers[1].salt.some /\ ~wjob.layers[2].salt.some
  /\ wjob.layers[1].version # wjob.layers[2].version
  /\ wjob.salts[1] # wjob.salts[2]

\* The layer invariants a config can violate, read off the config.
UnresolvedGroup(cfg) ==
  IF cfg.ranges # <<>>
  THEN \E i \in 1..Len(cfg.ranges) :
         /\ "vid" \notin DOMAIN cfg.ranges[i]
         /\ ~parse_i64(as_bytes(cfg.ranges[i].group)).some
         /\ cfg.ranges[i].group \notin DOMAIN config_groups(cfg)
  ELSE \E k \in DOMAIN config_buckets(cfg) :
         config_buckets(cfg)[k] \notin DOMAIN config_groups(cfg)

ViolatesInvariant(cfg) ==
  \/ UnresolvedGroup(cfg)
  \/ \E i \in 1..Len(cfg.ranges) :
        cfg.ranges[i].start >= cfg.ranges[i].end \/ cfg.ranges[i].end > BUCKET_SIZE
  \/ \E i, j \in 1..Len(cfg.ranges) :
        /\ i < j
        /\ cfg.ranges[i].start < cfg.ranges[j].end
        /\ cfg.ranges[j].start < cfg.ranges[i].end
  \/ cfg.ranges = <<>> /\ \E k \in DOMAIN config_buckets(cfg) : k >= BUCKET_SIZE

RangeCount(cfg) ==
  IF cfg.ranges # <<>> THEN Len(cfg.ranges) ELSE Cardinality(DOMAIN config_buckets(cfg))

\* The last valid config of a layer id among the files of a directory.
LastValid(files, layer_id) ==
  LET valid == {i \in 1..Len(files) :
                  files[i].layer_id = layer_id /\ ~ViolatesInvariant(files[i])}
  IN files[CHOOSE i \in valid : \A j \in valid : j <= i]

SameVariant(a, b) == a.some = b.some /\ (a.some => a.v = b.v)

\* C30: once remove_experiment(eid) has run, no vid of that experiment
\* resolves any more (a response takes a variant only through get_variant,
\* so none can hold its vid or its parameters), and every variant of every
\* other experiment resolves exactly as before the removal.
C30_DeleteRemovesOnlyThatExperiment ==
  [][last'.op = "remove_experiment" /\ last'.eid \in DOMAIN catalog.experiments =>
       /\ \A i \in 1..Len(catalog.experiments[last'.eid].variants) :
            LET after == get_variant(catalog', catalog.experiments[last'.eid].variants[i].vid)
            IN after.some => after.v.eid # last'.eid
       /\ \A other \in DOMAIN catalog.experiments \ {last'.eid} :
            \A i \in 1..Len(catalog.experiments[other].variants) :
              SameVariant(get_variant(catalog', catalog.experiments[other].variants[i].vid),
                          get_variant(catalog, catalog.experiments[other].variants[i].vid))]_vars

\* The boundary that owns a bucket: the largest start not above it.
OwningStart(buckets, bucket) ==
  CHOOSE k \in DOMAIN buckets : k <= bucket /\ \A j \in DOMAIN buckets : j <= bucket => j <= k

NextStart(buckets, k) ==
  IF \E j \in DOMAIN buckets : j > k
  THEN CHOOSE j \in DOMAIN buckets : j > k /\ \A i \in DOMAIN buckets : i > k => j <= i
  ELSE BUCKET_SIZE

GroupsDefined(cfg) == \A k \in DOMAIN cfg.buckets : cfg.buckets[k] \in DOMAIN cfg.groups

\* C31: for a layer in the boundary form whose groups are defined, the
\* conversion yields, under every iteration order of the boundary map,
\* exactly one range per boundary, from its start to the next start (the
\* last one to BUCKET_SIZE), with the vid of its group; on the layer built
\* from it get_vid(b) is the vid of the group with the largest start <= b,
\* and None below the first start.
C31_BoundaryForm ==
  /\ (wjob.kind = "buckets" /\ GroupsDefined(wjob.cfg)) =>
       /\ wjob.converted.ok
       /\ Len(wjob.converted.ranges) = Cardinality(DOMAIN wjob.cfg.buckets)
       /\ {wjob.converted.ranges[i] : i \in 1..Len(wjob.converted.ranges)}
            = {BucketRange(k, NextStart(wjob.cfg.buckets, k),
                           wjob.cfg.groups[wjob.cfg.buckets[k]].vid) : k \in DOMAIN wjob.cfg.buckets}
       /\ wjob.built.ok => wjob.built.layer.ranges = wjob.converted.ranges
  /\ (wjob.kind = "buckets" /\ rjob.kind = "probe") =>
       IF \E k \in DOMAIN wjob.cfg.buckets : k <= rjob.bucket
       THEN /\ rjob.result.some
            /\ rjob.result.v
                 = wjob.cfg.groups[wjob.cfg.buckets[OwningStart(wjob.cfg.buckets, rjob.bucket)]].vid
       ELSE ~rjob.result.some

\* Three boundaries met in descending order, and a bucket of the middle one.
C31_Witness ==
  /\ wjob.kind = "buckets" /\ wjob.built.ok
  /\ wjob.order = <<7000, 3000, 0>>
  /\ rjob.kind = "probe" /\ rjob.bucket = 6999
  /\ rjob.result.some /\ rjob.result.v = wjob.cfg.groups[wjob.cfg.buckets[3000]].vid

\* a is b with some of its elements left out.
RECURSIVE IsSubsequence(_, _)
IsSubsequence(a, b) ==
  IF a = <<>> THEN TRUE
  ELSE IF b = <<>> THEN FALSE
  ELSE IF Head(a) = Head(b) THEN IsSubsequence(Tail(a), Tail(b))
  ELSE IsSubsequence(a, Tail(b))

InLayerMap(layer_id) == layer_id \in DOMAIN layers

\* C32: when the request lists layers, only listed layers that exist in the
\* layer map are candidates, in request order: matched_layers of every
\* service is a subsequence of the existing ids of request.layers, so an
\* unknown id is dropped without an error and a layer that is not listed
\* does not contribute, whatever the index lists for the service.
C32_ExplicitLayersInRequestOrder ==
  (Answered /\ response.request.layers # <<>>) =>
    \A s \in DOMAIN response.results :
      IsSubsequence(response.results[s].matched_layers,
                    SelectSeq(response.request.layers, InLayerMap))

\* Request order against priority order (L1 has the higher priority), and a
\* list with an unknown id while the index holds the unlisted L2.
C32_Witness ==
  /\ Answered
  /\ \/ /\ response.request.layers = <<"L2", "L1">>
        /\ \E s \in DOMAIN response.results :
             response.results[s].matched_layers = <<"L2", "L1">>
        /\ layers["L1"].priority > layers["L2"].priority
     \/ /\ response.request.layers = <<"L1", "L9", "L1">>
        /\ \E s \in DOMAIN response.results :
             /\ response.results[s].matched_layers = <<"L1", "L1">>
             /\ s \in DOMAIN service_index
             /\ \E i \in 1..Len(service_index[s]) : service_index[s][i] = "L2"

\* The response to the request for service s alone, with the context and
\* the layers list of the last request, on the current snapshot.
AloneResponse(s) ==
  merge_layers_batch(ExperimentRequest(<<s>>, response.request.context, response.request.layers),
                     service_index, layers, catalog, field_types)

Handled == response.status \in {"ok", "error"}

\* C33: the services of a request are evaluated independently: whenever the
\* request for service s alone is answered, the request naming s among
\* other services (before or after it, once or repeatedly) is answered too,
\* with the same result for s, and the response has one entry per distinct
\* requested service.
C33_ServicesIndependent ==
  Handled =>
    /\ \A i \in 1..Len(response.request.services) :
         LET s == response.request.services[i] IN
         AloneResponse(s).ok =>
           /\ Answered
           /\ s \in DOMAIN response.results
           /\ response.results[s] = AloneResponse(s).results[s]
    /\ Answered =>
         DOMAIN response.results
           = {response.request.services[i] : i \in 1..Len(response.request.services)}

IndexList(index, s) == IF s \in DOMAIN index THEN index[s] ELSE <<>>

\* C34: removing a layer that is present takes only that entry out of the
\* layer map, leaves every other entry and the whole history as they were,
\* and rebuilds the index (every service list loses the removed layer and
\* keeps the rest in order); removing a layer_id that is not in the map
\* fails and changes neither the map, the index nor the history.
C34_RemoveFrame ==
  [][\A layer_id \in LayerIds :
       LayerDeleteWith({layer_id}) =>
         IF layer_id \in DOMAIN layers
         THEN /\ last'.ok
              /\ DOMAIN layers' = DOMAIN layers \ {layer_id}
              /\ \A other \in DOMAIN layers' : layers'[other] = layers[other]
              /\ history' = history
              /\ \A s \in Services :
                   LET Kept(id) == id # layer_id IN
                   IndexList(service_index', s) = SelectSeq(IndexList(service_index, s), Kept)
         ELSE /\ ~last'.ok
              /\ layers' = layers /\ service_index' = service_index
              /\ history' = history]_vars

\* A layer with a history stack has been removed while another layer stays.
C34_Witness ==
  /\ last.op = "LayerDelete" /\ last.ok
  /\ layers # EmptyMap
  /\ \E layer_id \in DOMAIN history : layer_id \notin DOMAIN layers /\ history[layer_id] # <<>>

\* The bucket of the request under a layer (the request's key exists).
RequestBucket(layer) ==
  hash_to_bucket(hash_key_value(response.request.context, layer).v, get_salt(layer))

\* C35: in every service result vids and matched_layers have the same
\* length, and position by position the vid is the vid of the range of the
\* layer named there that holds the request's bucket.
C35_VidsAlignedWithLayers ==
  Answered =>
    \A s \in DOMAIN response.results :
      LET r == response.results[s] IN
      /\ Len(r.vids) = Len(r.matched_layers)
      /\ \A i \in 1..Len(r.matched_layers) :
           /\ r.matched_layers[i] \in DOMAIN layers
           /\ hash_key_value(response.request.context, layers[r.matched_layers[i]]).some
           /\ \E j \in 1..Len(layers[r.matched_layers[i]].ranges) :
                LET range == layers[r.matched_layers[i]].ranges[j] IN
                /\ range.vid = r.vids[i]
                /\ range.start <= RequestBucket(layers[r.matched_layers[i]])
                /\ RequestBucket(layers[r.matched_layers[i]]) < range.end

\* Two layers contribute to one service, the first one through a range
\* that is not the first of its layer.
C35_Witness ==
  /\ Answered
  /\ \E s \in DOMAIN response.results :
       /\ Len(response.results[s].vids) = 2
       /\ layers[response.results[s].matched_layers[1]].ranges[1].vid
            # response.results[s].vids[1]

\* C36: the two maps of the catalog agree: every vid of the reverse index
\* maps to a stored experiment that lists it, every variant of every stored
\* experiment is in the reverse index under its own eid, and get_variant
\* answers with that experiment for exactly those vids.
C36_CatalogMapsAgree ==
  /\ \A vid \in DOMAIN catalog.vid_to_eid :
       /\ catalog.vid_to_eid[vid] \in DOMAIN catalog.experiments
       /\ \E i \in 1..Len(catalog.experiments[catalog.vid_to_eid[vid]].variants) :
            catalog.experiments[catalog.vid_to_eid[vid]].variants[i].vid = vid
  /\ \A eid \in DOMAIN catalog.experiments :
       \A i \in 1..Len(catalog.experiments[eid].variants) :
         LET vid == catalog.experiments[eid].variants[i].vid IN
         /\ vid \in DOMAIN catalog.vid_to_eid
         /\ catalog.vid_to_eid[vid] = eid
         /\ get_variant(catalog, vid).some
         /\ get_variant(catalog, vid).v.eid = eid
         /\ get_variant(catalog, vid).v.service = catalog.experiments[eid].service

\* C37: a rollback that returns an error changes neither the layer map,
\* nor the service index, nor the history, also for a layer_id that still
\* has history entries but is no longer in the layer map; no historical
\* version is consumed.
C37_FailedRollbackIsNoOp ==
  [][(last'.op = "rollback_layer" /\ ~last'.ok) =>
       /\ layers' = layers
       /\ service_index' = service_index
       /\ history' = history
       /\ \A layer_id \in DOMAIN history :
            layer_id \in DOMAIN history' /\ Len(history'[layer_id]) = Len(history[layer_id])]_vars

\* The rule with the children of every And and Or node in reverse order.
RECURSIVE Mirror(_)
Mirror(node) ==
  IF node.type = "field" THEN node
  ELSE [node EXCEPT !.children =
          [i \in 1..Len(node.children) |-> Mirror(node.children[Len(node.children) + 1 - i])]]

\* C38: the gating outcome does not depend on the order of the children of
\* And and Or nodes: the gated variant is assigned exactly when the rule
\* with its children in the opposite order passes on the same context and
\* field types, a failing evaluation counting as not passed.
C38_ChildOrderIrrelevant ==
  GateHandled =>
    (GateAssigned <=> rule_passed(Some(Mirror(GateRule)), GateCtx, field_types))

\* Every field the rule mentions has, in the context, a value of the type
\* the field types declare for it.
RECURSIVE ContextTyped(_, _, _)
ContextTyped(node, ctx, ftypes) ==
  IF node.type = "field"
  THEN /\ node.field \in DOMAIN ftypes
       /\ node.field \in DOMAIN ctx
       /\ validate_value_type(ctx[node.field], ftypes[node.field])
  ELSE \A i \in 1..Len(node.children) : ContextTyped(node.children[i], ctx, ftypes)

\* C39: when validate accepts the gating rule under the field types in
\* force and the context gives every field of the rule a value of its
\* declared type, evaluate returns a boolean and no error.
C39_ValidationSound ==
  (/\ GateHandled
   /\ validate(GateRule, field_types)
   /\ ContextTyped(GateRule, GateCtx, field_types))
  => evaluate(GateRule, GateCtx, field_types).ok

====
